---- MODULE Spec2Model ----
(***************************************************************************)
(* Deep Learning Concept Visualizer: the PCA fixture loader with the       *)
(* PCAViz instances that call it, and the bounded cursors of the animated  *)
(* visualizers (GradientDescentViz, RNNViz, LLMViz, SVD-image, CNNViz,     *)
(* LLMFlowViz) with their interval timers, and the tab shell of App: the   *)
(* tab query parameter, the session history and the lazily imported PCA    *)
(* panel with its error boundary.                                          *)
(***************************************************************************)
EXTENDS Integers, Sequences, FiniteSets, TLC

(***************************************************************************)
(* Bounds of the model.                                                    *)
(***************************************************************************)
\* PCAViz instances mounted over the lifetime of the page
MaxViews == 3
\* network requests for /data/pca-presets.json over the lifetime of the page
MaxFetches == 3
\* entries of the session history that belong to this page
MaxHistory == 3
\* PCAViz instances mounted by the tab shell
MaxPanelViews == 2
\* runs of the precompute job
MaxRuns == 3

VARIABLES
    \* ---- PCA fixture loader (module-level state of PCAViz.tsx)
    pcaDataCache,     \* Null, or the artifact cached (named by the fetch that produced it)
    pcaDataPromise,   \* Null, or the index in fetches of the in-flight promise chain
    fetches,          \* one record per network request issued: the state of its promise chain
    unhandled,        \* number of promise rejections no handler was attached to
    \* ---- PCAViz instances, in mount order
    views,
    \* ---- the animated visualizers; App renders exactly one of them, the
    \* others do not exist and are held at their mount defaults
    panel,            \* the concept whose visualizer is mounted
    crashed,          \* a render threw and React unmounted the tree
    gd,               \* GradientDescentViz: visibleStep, isPlaying, speedMs, steps, lr
    rnn,              \* RNNViz: t, playing, speed
    llm,              \* LLMViz: contextLen, playing, speed
    svd,              \* SVDViz (image): k, playing, speed
    cnn,              \* CNNViz: scanIndex, scanPlaying, scanSpeed, iteration, iterPlaying
    flow,             \* LLMFlowViz: active, playing, speed
    timers,           \* the live window.setInterval timers, each with what its callback closed over
    last,             \* the handler that ran last, and the playing flag it found
    \* ---- the tab shell (App.tsx)
    history,          \* the session history entries of this page: the raw tab parameter of each URL
    histIdx,          \* the current entry; history[histIdx] is window.location
    appPhase,         \* "rendered": first render done, effects pending; "ready": effects have run
    lazyPCA,          \* the React.lazy payload of PCAViz
    imports,          \* calls of the importer made so far
    hasError,         \* LazyChunkBoundary state of the mounted boundary
    shellLast,        \* the shell event handled last
    \* ---- the derivations (pure functions of parameters and cursors)
    calc,             \* the derivation evaluated last: its name, arguments and result
    earlier,          \* the derivation evaluated before it
    \* ---- the fixture file in the repository (precompute job, pre-commit hook)
    repo

loaderVars == <<pcaDataCache, pcaDataPromise, fetches, unhandled, views>>

vizVars == <<panel, crashed, gd, rnn, llm, svd, cnn, flow, timers, last>>

shellVars == <<history, histIdx, appPhase, lazyPCA, imports, hasError, shellLast>>

toolVars == <<calc, earlier, repo>>

vars == <<pcaDataCache, pcaDataPromise, fetches, unhandled, views,
          panel, crashed, gd, rnn, llm, svd, cnn, flow, timers, last,
          history, histIdx, appPhase, lazyPCA, imports, hasError, shellLast,
          calc, earlier, repo>>

Null == 0

(***************************************************************************)
(* Promises handed to callers of loadPcaArtifact().                        *)
(***************************************************************************)
NoPromise == [kind |-> "none", id |-> 0]
\* the promise chain fetch(...).then(...).then(...).catch(...) of request i
ChainPromise(i) == [kind |-> "chain", id |-> i]
\* Promise.resolve(pcaDataCache), already fulfilled with artifact a
ResolvedPromise(a) == [kind |-> "resolved", id |-> a]

\* Phases of one request's promise chain:
\*   "sent"    fetch() issued, no response yet
\*   "body"    response.ok, response.json() reading the body
\*   "parsed"  response.json() fulfilled; the .then that writes the cache is queued
\*   "thrown"  the chain is rejected; the .catch handler is queued
\*   "fulfilled" / "rejected"  the chain promise returned to the callers is settled
Settled(i) == fetches[i].phase \in {"fulfilled", "rejected"}

\* A view whose .then/.catch callback is queued as a microtask.
CallbackQueued(v) ==
    \/ views[v].awaiting.kind = "resolved"
    \/ views[v].awaiting.kind = "chain" /\ Settled(views[v].awaiting.id)

\* The microtask queue is empty: only then can the event loop run another
\* task (a mount, an unmount, a network event).
MicrotasksIdle ==
    /\ \A i \in 1..Len(fetches) : fetches[i].phase \notin {"parsed", "thrown"}
    /\ \A v \in 1..Len(views) : ~CallbackQueued(v)

(***************************************************************************)
(* loadPcaArtifact(): what it returns and what it leaves in the module     *)
(* state.                                                                  *)
(***************************************************************************)
\* loadPcaArtifact() without the pcaDataPromise check: every call made before
\* the cache is written starts its own request.
loadPcaArtifactNoJoin ==
    IF pcaDataCache # Null
    THEN [ret |-> ResolvedPromise(pcaDataCache), issued |-> FALSE,
          promise |-> pcaDataPromise, fetches |-> fetches]
    ELSE [ret |-> ChainPromise(Len(fetches) + 1), issued |-> TRUE,
          promise |-> Len(fetches) + 1,
          fetches |-> Append(fetches, [phase |-> "sent", error |-> ""])]

\* loadPcaArtifact() without memoization: every call starts a request.
loadPcaArtifactNoMemo ==
    [ret |-> ChainPromise(Len(fetches) + 1), issued |-> TRUE,
     promise |-> Len(fetches) + 1,
     fetches |-> Append(fetches, [phase |-> "sent", error |-> ""])]

loadPcaArtifact ==
    IF pcaDataCache # Null
    THEN [ret |-> ResolvedPromise(pcaDataCache), issued |-> FALSE,
          promise |-> pcaDataPromise, fetches |-> fetches]
    ELSE IF pcaDataPromise # Null
    THEN [ret |-> ChainPromise(pcaDataPromise), issued |-> FALSE,
          promise |-> pcaDataPromise, fetches |-> fetches]
    ELSE [ret |-> ChainPromise(Len(fetches) + 1), issued |-> TRUE,
          promise |-> Len(fetches) + 1,
          fetches |-> Append(fetches, [phase |-> "sent", error |-> ""])]

(***************************************************************************)
(* PCAViz mount: useState(() => pcaDataCache), then the effect calls       *)
(* loadPcaArtifact() and attaches its .then/.catch callbacks.              *)
(***************************************************************************)
MountPCAViz ==
    /\ Len(views) < MaxViews
    /\ LET r == loadPcaArtifact IN
        /\ Len(r.fetches) <= MaxFetches
        /\ pcaDataPromise' = r.promise
        /\ fetches' = r.fetches
        /\ views' = Append(views,
                [mounted |-> TRUE, active |-> TRUE, data |-> pcaDataCache,
                 loadError |-> "", awaiting |-> r.ret, ret |-> r.ret,
                 issued |-> r.issued, discarded |-> FALSE,
                 pre |-> [cache |-> pcaDataCache, promise |-> pcaDataPromise,
                          fetches |-> fetches]])
    /\ UNCHANGED <<pcaDataCache, unhandled>>

PCAVizMount ==
    /\ MicrotasksIdle
    /\ \A v \in 1..Len(views) : ~views[v].mounted
    /\ MountPCAViz
    /\ UNCHANGED vizVars
    /\ UNCHANGED shellVars
    /\ UNCHANGED toolVars

\* The effect's cleanup: active = false.
PCAVizUnmount(v) ==
    /\ MicrotasksIdle
    /\ views[v].mounted
    /\ views' = [views EXCEPT ![v].mounted = FALSE, ![v].active = FALSE]
    /\ UNCHANGED <<pcaDataCache, pcaDataPromise, fetches, unhandled>>
    /\ UNCHANGED vizVars
    /\ UNCHANGED shellVars
    /\ UNCHANGED toolVars

(***************************************************************************)
(* The network and the promise chain of loadPcaArtifact().                 *)
(***************************************************************************)
\* fetch() settles: a response that is ok, a response that is not ok (the
\* first .then throws), or a network error (fetch rejects).
NetworkRespond(i, outcome) ==
    /\ MicrotasksIdle
    /\ fetches[i].phase = "sent"
    /\ fetches' = [fetches EXCEPT ![i] =
            IF outcome = "ok" THEN [phase |-> "body", error |-> ""]
            ELSE [phase |-> "thrown", error |-> outcome]]
    /\ UNCHANGED <<pcaDataCache, pcaDataPromise, unhandled, views>>
    /\ UNCHANGED vizVars
    /\ UNCHANGED shellVars
    /\ UNCHANGED toolVars

\* response.json() settles.
BodyParsed(i, good) ==
    /\ MicrotasksIdle
    /\ fetches[i].phase = "body"
    /\ fetches' = [fetches EXCEPT ![i] =
            IF good THEN [phase |-> "parsed", error |-> ""]
            ELSE [phase |-> "thrown", error |-> "parse"]]
    /\ UNCHANGED <<pcaDataCache, pcaDataPromise, unhandled, views>>
    /\ UNCHANGED vizVars
    /\ UNCHANGED shellVars
    /\ UNCHANGED toolVars

\* .then((artifact) => { pcaDataCache = artifact; return artifact; })
ThenCache(i) ==
    /\ fetches[i].phase = "parsed"
    /\ pcaDataCache' = i
    /\ fetches' = [fetches EXCEPT ![i].phase = "fulfilled"]
    /\ UNCHANGED <<pcaDataPromise, unhandled, views>>
    /\ UNCHANGED vizVars
    /\ UNCHANGED shellVars
    /\ UNCHANGED toolVars

\* A .catch handler that rethrows without clearing the marker.
CatchMarkerKept == pcaDataPromise

\* The in-flight marker after the .catch handler has run.
CatchMarker == Null

\* .catch((error) => { pcaDataPromise = null; throw error; })
CatchClear(i) ==
    /\ fetches[i].phase = "thrown"
    /\ pcaDataPromise' = CatchMarker
    /\ fetches' = [fetches EXCEPT ![i].phase = "rejected"]
    /\ unhandled' = IF \E v \in 1..Len(views) : views[v].awaiting = ChainPromise(i)
                    THEN unhandled ELSE unhandled + 1
    /\ UNCHANGED <<pcaDataCache, views>>
    /\ UNCHANGED vizVars
    /\ UNCHANGED shellVars
    /\ UNCHANGED toolVars

(***************************************************************************)
(* A PCAViz callback runs: .then((artifact) => { if (active) setData })    *)
(* or .catch((error) => { if (active) setLoadError }).  Callbacks run in   *)
(* the order they were attached, which is mount order.                     *)
(***************************************************************************)
\* Callbacks without the unmount guard.
GuardMissing(v) == TRUE

\* The unmount guard of the callbacks.
Guard(v) == views[v].active

\* data after .then((artifact) => { if (active) setData(artifact); })
setData(v, artifact) == IF Guard(v) THEN artifact ELSE views[v].data

\* A .catch callback that swallows the error.
setLoadErrorSwallowed(v, error) == views[v].loadError

\* loadError after .catch((error) => { if (active) setLoadError(error.message); })
setLoadError(v, error) == IF Guard(v) THEN error ELSE views[v].loadError

Deliver(v) ==
    /\ CallbackQueued(v)
    /\ \A u \in 1..(v - 1) : ~CallbackQueued(u)
    /\ LET p == views[v].awaiting
           ok == p.kind = "resolved" \/ fetches[p.id].phase = "fulfilled"
           value == IF p.kind = "resolved" THEN p.id ELSE pcaDataCache
           err == IF p.kind = "resolved" THEN "" ELSE fetches[p.id].error
       IN views' = [views EXCEPT
            ![v].awaiting = NoPromise,
            ![v].data = IF ok THEN setData(v, value) ELSE @,
            ![v].loadError = IF ~ok THEN setLoadError(v, err) ELSE @,
            ![v].discarded = ~views[v].active]
    /\ UNCHANGED <<pcaDataCache, pcaDataPromise, fetches, unhandled>>
    /\ UNCHANGED vizVars
    /\ UNCHANGED shellVars
    /\ UNCHANGED toolVars

(***************************************************************************)
(* The tab shell's concepts and the visualizer each one mounts.            *)
(***************************************************************************)
Concepts == {"svd", "pca", "gd", "cnn", "rnn", "llm", "llmflow"}
DEFAULT_TAB == "svd"

(***************************************************************************)
(* Program constants of the visualizers.                                   *)
(***************************************************************************)
\* RNNViz TOKENS.length
RnnTokens == 6
\* LLMViz TOKENS.length, and the context length Reset and the wrap go to
LlmTokens == 9
LlmMinContext == 4
\* SVDViz: the singular values of the N x N image, maxRank = s.length
MaxRank == 14
\* CNNViz: scanPositions.length = (IMAGE_SIZE - KERNEL_SIZE + 1)^2
IMAGE_SIZE == 14
KERNEL_SIZE == 3
ScanPositions == (IMAGE_SIZE - KERNEL_SIZE + 1) * (IMAGE_SIZE - KERNEL_SIZE + 1)
\* CNNViz: the last training iteration
MaxIteration == 120
\* LLMFlowViz STEPS.length
FlowSteps == 7
\* GradientDescentViz: the Steps slider's min and max, and its default
StepsMin == 8
StepsMax == 70
StepsDefault == 28

(***************************************************************************)
(* Slider inputs the model draws from.                                     *)
(***************************************************************************)
\* how many values above its minimum the Steps slider is moved to
StepsSpan == 1
StepsInputs == (StepsMin..(StepsMin + StepsSpan)) \cup {StepsDefault, StepsMax}
\* how many values next to each end the Training iteration slider is moved to
IterSpan == 1
IterationInputs == (1..(1 + IterSpan)) \cup ((MaxIteration - IterSpan)..MaxIteration)
\* speed sliders: the default and the slider's minimum
GdSpeeds == {180, 60}
RnnSpeeds == {520, 180}
LlmSpeeds == {900, 250}
SvdSpeeds == {750, 250}
ScanSpeeds == {160, 60}
FlowSpeeds == {1100, 500}
\* learning rate, in thousandths: the default and one step above it
GdLrs == {80, 85}

(***************************************************************************)
(* State of each visualizer on mount (its useState defaults).              *)
(***************************************************************************)
GdDefault == [visibleStep |-> 0, isPlaying |-> TRUE, speedMs |-> 180,
              steps |-> StepsDefault, lr |-> 80]
RnnDefault == [t |-> 0, playing |-> TRUE, speed |-> 520]
LlmDefault == [contextLen |-> 7, playing |-> TRUE, speed |-> 900]
SvdDefault == [k |-> 4, playing |-> FALSE, speed |-> 750]
CnnDefault == [scanIndex |-> 0, scanPlaying |-> TRUE, scanSpeed |-> 160,
               iteration |-> 1, iterPlaying |-> TRUE]
FlowDefault == [active |-> 0, playing |-> FALSE, speed |-> 1100]

(***************************************************************************)
(* The timer effects: the interval timers alive after a commit, given the  *)
(* state that was rendered.  The cleanup of an effect whose dependencies   *)
(* changed runs before the effect runs again.                              *)
(***************************************************************************)
Timer(c, ms, n) == [cursor |-> c, every |-> ms, len |-> n]

\* Variant of the GradientDescentViz timer effect without its cleanup: the
\* interval of the previous run of the effect is never cleared.
GdTimerEffectNoCleanup(g) ==
    timers \cup (IF g.isPlaying THEN {Timer("visibleStep", g.speedMs, g.steps + 1)} ELSE {})

\* useEffect(..., [isPlaying, speedMs, path.length]); path.length = steps + 1
GdTimerEffect(g) ==
    IF g.isPlaying THEN {Timer("visibleStep", g.speedMs, g.steps + 1)} ELSE {}
\* useEffect(..., [playing, speed])
RnnTimerEffect(r) ==
    IF r.playing THEN {Timer("t", r.speed, RnnTokens)} ELSE {}
LlmTimerEffect(l) ==
    IF l.playing THEN {Timer("contextLen", l.speed, LlmTokens)} ELSE {}
\* useEffect(..., [playing, speed, maxRank])
SvdTimerEffect(v) ==
    IF v.playing THEN {Timer("k", v.speed, MaxRank)} ELSE {}
\* useEffect(..., [scanPlaying, scanSpeed, scanPositions.length]) and
\* useEffect(..., [iterPlaying])
CnnTimerEffect(c) ==
    (IF c.scanPlaying THEN {Timer("scanIndex", c.scanSpeed, ScanPositions)} ELSE {})
    \cup (IF c.iterPlaying THEN {Timer("iteration", 330, MaxIteration)} ELSE {})
FlowTimerEffect(f) ==
    IF f.playing THEN {Timer("active", f.speed, FlowSteps)} ELSE {}

\* The timers of a freshly mounted visualizer.
MountTimers(p) ==
    CASE p = "gd" -> GdTimerEffect(GdDefault)
      [] p = "rnn" -> RnnTimerEffect(RnnDefault)
      [] p = "llm" -> LlmTimerEffect(LlmDefault)
      [] p = "svd" -> SvdTimerEffect(SvdDefault)
      [] p = "cnn" -> CnnTimerEffect(CnnDefault)
      [] p = "llmflow" -> FlowTimerEffect(FlowDefault)
      [] OTHER -> {}

(***************************************************************************)
(* The interval callbacks' functional updates.                             *)
(***************************************************************************)
\* setVisibleStep((s) => { if (s >= path.length - 1) return 0; return s + 1; })
GdAdvance(s, pathLength) == IF s >= pathLength - 1 THEN 0 ELSE s + 1
\* An advance that stops at the last token.
RnnAdvanceHalting(v) == IF v >= RnnTokens - 1 THEN v ELSE v + 1

\* setT((v) => (v + 1) % TOKENS.length)
RnnAdvance(v) == (v + 1) % RnnTokens
\* A wrap to 0 instead of the minimum context length.
LlmAdvanceToZero(v) == IF v >= LlmTokens THEN 0 ELSE v + 1

\* setContextLen((v) => (v >= TOKENS.length ? 4 : v + 1))
LlmAdvance(v) == IF v >= LlmTokens THEN LlmMinContext ELSE v + 1
\* setK((curr) => (curr >= maxRank ? 1 : curr + 1))
SvdAdvance(curr) == IF curr >= MaxRank THEN 1 ELSE curr + 1
\* setScanIndex((i) => (i + 1) % scanPositions.length)
ScanAdvance(i) == (i + 1) % ScanPositions
\* setIteration((i) => (i >= 120 ? 1 : i + 1))
IterAdvance(i) == IF i >= MaxIteration THEN 1 ELSE i + 1
\* setActive((s) => (s + 1) % STEPS.length)
FlowAdvance(s) == (s + 1) % FlowSteps

Max(a, b) == IF a >= b THEN a ELSE b
Min(a, b) == IF a <= b THEN a ELSE b

Did(op, was) == [op |-> op, wasPlaying |-> was]

(***************************************************************************)
(* Tab shell: changeTab unmounts the visualizer of the old concept (its    *)
(* state is dropped and its effects are cleaned up) and mounts the new one *)
(* with its defaults.  This is the handler as the visualizers see it; the  *)
(* URL, the session history and the lazy PCA panel, which no visualizer    *)
(* reads, are followed by TabClick under SpecShell.                        *)
(***************************************************************************)
changeTab(tab) ==
    /\ ~crashed
    /\ tab # panel
    /\ panel' = tab
    /\ gd' = GdDefault /\ rnn' = RnnDefault /\ llm' = LlmDefault
    /\ svd' = SvdDefault /\ cnn' = CnnDefault /\ flow' = FlowDefault
    /\ timers' = MountTimers(tab)
    /\ last' = Did("changeTab", FALSE)
    /\ UNCHANGED crashed
    /\ UNCHANGED loaderVars
    /\ UNCHANGED shellVars
    /\ UNCHANGED toolVars

(***************************************************************************)
(* GradientDescentViz                                                      *)
(***************************************************************************)
GdOthers == UNCHANGED <<panel, rnn, llm, svd, cnn, flow>> /\ UNCHANGED loaderVars /\ UNCHANGED shellVars
            /\ UNCHANGED toolVars

\* A handler of GradientDescentViz leaves state g: the commit re-renders
\* (const current = path[visibleStep]; project(current, ...) throws when the
\* index is past the path's end), then the effects run.
GdCommit(g, op) ==
    /\ panel = "gd" /\ ~crashed
    /\ last' = Did(op, gd.isPlaying)
    /\ IF g.visibleStep > g.steps
       THEN crashed' = TRUE /\ gd' = g /\ timers' = {}
       ELSE crashed' = FALSE /\ gd' = g /\ timers' = GdTimerEffect(g)
    /\ GdOthers

\* onClick={() => setIsPlaying((v) => !v)}
GdTogglePlay == GdCommit([gd EXCEPT !.isPlaying = ~@], "GdTogglePlay")

\* A Reset that also pauses.
GdResetPausing == GdCommit([gd EXCEPT !.isPlaying = FALSE, !.visibleStep = 0], "GdReset")

\* onClick={() => setVisibleStep(0)}
GdReset == GdCommit([gd EXCEPT !.visibleStep = 0], "GdReset")

\* A Prev Step that moves the cursor without pausing.
GdPrevStepPlaying == GdCommit([gd EXCEPT !.visibleStep = Max(0, @ - 1)], "GdPrevStep")

\* onClick={() => { setIsPlaying(false); setVisibleStep((s) => Math.max(0, s - 1)); }}
GdPrevStep ==
    GdCommit([gd EXCEPT !.isPlaying = FALSE, !.visibleStep = Max(0, @ - 1)], "GdPrevStep")

\* A Next Step that wraps at the end of the path as the timer does.
GdNextStepWrapping ==
    GdCommit([gd EXCEPT !.isPlaying = FALSE, !.visibleStep = GdAdvance(@, gd.steps + 1)],
             "GdNextStep")

\* onClick={() => { setIsPlaying(false); setVisibleStep((s) => Math.min(path.length - 1, s + 1)); }}
GdNextStep ==
    GdCommit([gd EXCEPT !.isPlaying = FALSE, !.visibleStep = Min(gd.steps, @ + 1)],
             "GdNextStep")

\* Visible Step slider: onChange={(e) => { setIsPlaying(false); setVisibleStep(Number(e.target.value)); }}
GdScrub(v) ==
    /\ v \in 0..gd.steps
    /\ GdCommit([gd EXCEPT !.isPlaying = FALSE, !.visibleStep = v], "GdScrub")

\* A speed change that also pauses.
GdSetSpeedPausing(ms) ==
    /\ ms # gd.speedMs
    /\ GdCommit([gd EXCEPT !.speedMs = ms, !.isPlaying = FALSE], "GdSetSpeed")

\* Animation Speed slider: onChange={(e) => setSpeedMs(Number(e.target.value))}
GdSetSpeed(ms) ==
    /\ ms # gd.speedMs
    /\ GdCommit([gd EXCEPT !.speedMs = ms], "GdSetSpeed")

\* Steps slider: setSteps; the render with the new path reads path[visibleStep]
\* before the effect on [startX, startY, lr, steps] runs setVisibleStep(0).
GdSetSteps(n) ==
    /\ n # gd.steps
    /\ IF gd.visibleStep > n
       THEN GdCommit([gd EXCEPT !.steps = n], "GdSetSteps")
       ELSE GdCommit([gd EXCEPT !.steps = n, !.visibleStep = 0], "GdSetSteps")

\* Learning rate slider: setLr; the effect on [startX, startY, lr, steps]
\* runs setVisibleStep(0).
GdSetLr(v) ==
    /\ v # gd.lr
    /\ GdCommit([gd EXCEPT !.lr = v, !.visibleStep = 0], "GdSetLr")

\* Start X and Start Y sliders: setStartX / setStartY; the path is rebuilt
\* with the same length and the effect on [startX, startY, lr, steps] runs
\* setVisibleStep(0).  The start point itself is not part of the state kept
\* here.
GdSetStart == GdCommit([gd EXCEPT !.visibleStep = 0], "GdSetStart")

\* Yaw and Pitch sliders: setYaw / setPitch change the projection only.
GdSetCamera == GdCommit(gd, "GdSetCamera")

\* The interval callback of a live timer.
GdTick ==
    \E tm \in timers :
        /\ tm.cursor = "visibleStep"
        /\ GdCommit([gd EXCEPT !.visibleStep = GdAdvance(@, tm.len)], "GdTick")

GdNext ==
    \/ GdTogglePlay
    \/ GdReset
    \/ GdPrevStep
    \/ GdNextStep
    \/ \E v \in 0..StepsMax : GdScrub(v)
    \/ \E ms \in GdSpeeds : GdSetSpeed(ms)
    \/ \E n \in StepsInputs : GdSetSteps(n)
    \/ \E v \in GdLrs : GdSetLr(v)
    \/ GdSetStart
    \/ GdSetCamera
    \/ GdTick

(***************************************************************************)
(* RNNViz                                                                  *)
(***************************************************************************)
RnnCommit(r, op) ==
    /\ panel = "rnn" /\ ~crashed
    /\ last' = Did(op, rnn.playing)
    /\ rnn' = r
    /\ timers' = RnnTimerEffect(r)
    /\ UNCHANGED <<panel, crashed, gd, llm, svd, cnn, flow>>
    /\ UNCHANGED loaderVars
    /\ UNCHANGED shellVars
    /\ UNCHANGED toolVars

\* onClick={() => setPlaying((v) => !v)}
RnnTogglePlay == RnnCommit([rnn EXCEPT !.playing = ~@], "RnnTogglePlay")

\* onClick={() => setT(0)}
RnnReset == RnnCommit([rnn EXCEPT !.t = 0], "RnnReset")

\* onClick={() => { setPlaying(false); setT((v) => Math.max(0, v - 1)); }}
RnnPrevStep == RnnCommit([rnn EXCEPT !.playing = FALSE, !.t = Max(0, @ - 1)], "RnnPrevStep")

\* onClick={() => { setPlaying(false); setT((v) => Math.min(TOKENS.length - 1, v + 1)); }}
RnnNextStep ==
    RnnCommit([rnn EXCEPT !.playing = FALSE, !.t = Min(RnnTokens - 1, @ + 1)], "RnnNextStep")

\* Timestep slider: onChange={(e) => { setPlaying(false); setT(Number(e.target.value)); }}
RnnScrub(v) == RnnCommit([rnn EXCEPT !.playing = FALSE, !.t = v], "RnnScrub")

\* Speed slider: onChange={(e) => setSpeed(Number(e.target.value))}
RnnSetSpeed(ms) ==
    /\ ms # rnn.speed
    /\ RnnCommit([rnn EXCEPT !.speed = ms], "RnnSetSpeed")

\* Recurrent gain and Input gain sliders: setRecurrentGain / setInputGain
\* change the weights the timeline is computed with.
RnnSetGain == RnnCommit(rnn, "RnnSetGain")

RnnTick ==
    \E tm \in timers :
        /\ tm.cursor = "t"
        /\ RnnCommit([rnn EXCEPT !.t = RnnAdvance(@)], "RnnTick")

RnnNext ==
    \/ RnnTogglePlay
    \/ RnnReset
    \/ RnnPrevStep
    \/ RnnNextStep
    \/ \E v \in 0..(RnnTokens - 1) : RnnScrub(v)
    \/ \E ms \in RnnSpeeds : RnnSetSpeed(ms)
    \/ RnnSetGain
    \/ RnnTick

(***************************************************************************)
(* LLMViz                                                                  *)
(***************************************************************************)
LlmCommit(l, op) ==
    /\ panel = "llm" /\ ~crashed
    /\ last' = Did(op, llm.playing)
    /\ llm' = l
    /\ timers' = LlmTimerEffect(l)
    /\ UNCHANGED <<panel, crashed, gd, rnn, svd, cnn, flow>>
    /\ UNCHANGED loaderVars
    /\ UNCHANGED shellVars
    /\ UNCHANGED toolVars

\* onClick={() => setPlaying((v) => !v)}
LlmTogglePlay == LlmCommit([llm EXCEPT !.playing = ~@], "LlmTogglePlay")

\* onClick={() => setContextLen(4)}
LlmReset == LlmCommit([llm EXCEPT !.contextLen = 4], "LlmReset")

\* onClick={() => { setPlaying(false); setContextLen((v) => Math.max(4, v - 1)); }}
LlmPrevToken ==
    LlmCommit([llm EXCEPT !.playing = FALSE, !.contextLen = Max(4, @ - 1)], "LlmPrevToken")

\* onClick={() => { setPlaying(false); setContextLen((v) => Math.min(TOKENS.length, v + 1)); }}
LlmNextToken ==
    LlmCommit([llm EXCEPT !.playing = FALSE, !.contextLen = Min(LlmTokens, @ + 1)],
              "LlmNextToken")

\* Context length slider: onChange={(e) => { setPlaying(false); setContextLen(Number(e.target.value)); }}
LlmScrub(v) == LlmCommit([llm EXCEPT !.playing = FALSE, !.contextLen = v], "LlmScrub")

\* Auto-play speed slider: onChange={(e) => setSpeed(Number(e.target.value))}
LlmSetSpeed(ms) ==
    /\ ms # llm.speed
    /\ LlmCommit([llm EXCEPT !.speed = ms], "LlmSetSpeed")

\* Head blend, Temperature and Attention cell size sliders: setBlend /
\* setTemperature / setCellSize change what is derived and drawn.
LlmSetBlend == LlmCommit(llm, "LlmSetBlend")
LlmSetTemperature == LlmCommit(llm, "LlmSetTemperature")

LlmTick ==
    \E tm \in timers :
        /\ tm.cursor = "contextLen"
        /\ LlmCommit([llm EXCEPT !.contextLen = LlmAdvance(@)], "LlmTick")

LlmNext ==
    \/ LlmTogglePlay
    \/ LlmReset
    \/ LlmPrevToken
    \/ LlmNextToken
    \/ \E v \in 4..LlmTokens : LlmScrub(v)
    \/ \E ms \in LlmSpeeds : LlmSetSpeed(ms)
    \/ LlmSetBlend
    \/ LlmSetTemperature
    \/ LlmTick

(***************************************************************************)
(* SVDViz (rank-k image reconstruction)                                    *)
(***************************************************************************)
SvdCommit(v, op) ==
    /\ panel = "svd" /\ ~crashed
    /\ last' = Did(op, svd.playing)
    /\ svd' = v
    /\ timers' = SvdTimerEffect(v)
    /\ UNCHANGED <<panel, crashed, gd, rnn, llm, cnn, flow>>
    /\ UNCHANGED loaderVars
    /\ UNCHANGED shellVars
    /\ UNCHANGED toolVars

\* onClick={() => setPlaying((v) => !v)}
SvdTogglePlay == SvdCommit([svd EXCEPT !.playing = ~@], "SvdTogglePlay")

\* onClick={() => setK(1)}
SvdReset == SvdCommit([svd EXCEPT !.k = 1], "SvdReset")

\* Variant of SvdPrevK that clamps at 0 instead of 1.
SvdPrevKToZero == SvdCommit([svd EXCEPT !.playing = FALSE, !.k = Max(0, @ - 1)], "SvdPrevK")

\* onClick={() => { setPlaying(false); setK((v) => Math.max(1, v - 1)); }}
SvdPrevK == SvdCommit([svd EXCEPT !.playing = FALSE, !.k = Max(1, @ - 1)], "SvdPrevK")

\* onClick={() => { setPlaying(false); setK((v) => Math.min(maxRank, v + 1)); }}
SvdNextK == SvdCommit([svd EXCEPT !.playing = FALSE, !.k = Min(MaxRank, @ + 1)], "SvdNextK")

\* Rank k slider: onChange={(e) => { setPlaying(false); setK(Number(e.target.value)); }}
SvdScrub(v) == SvdCommit([svd EXCEPT !.playing = FALSE, !.k = v], "SvdScrub")

\* Auto-play speed slider: onChange={(e) => setSpeed(Number(e.target.value))}
SvdSetSpeed(ms) ==
    /\ ms # svd.speed
    /\ SvdCommit([svd EXCEPT !.speed = ms], "SvdSetSpeed")

SvdTick ==
    \E tm \in timers :
        /\ tm.cursor = "k"
        /\ SvdCommit([svd EXCEPT !.k = SvdAdvance(@)], "SvdTick")

SvdNext ==
    \/ SvdTogglePlay
    \/ SvdReset
    \/ SvdPrevK
    \/ SvdNextK
    \/ \E v \in 1..MaxRank : SvdScrub(v)
    \/ \E ms \in SvdSpeeds : SvdSetSpeed(ms)
    \/ SvdTick

(***************************************************************************)
(* CNNViz                                                                  *)
(***************************************************************************)
CnnCommit(c, op, was) ==
    /\ panel = "cnn" /\ ~crashed
    /\ last' = Did(op, was)
    /\ cnn' = c
    /\ timers' = CnnTimerEffect(c)
    /\ UNCHANGED <<panel, crashed, gd, rnn, llm, svd, flow>>
    /\ UNCHANGED loaderVars
    /\ UNCHANGED shellVars
    /\ UNCHANGED toolVars

\* onClick={() => setScanPlaying((v) => !v)}
CnnToggleScan ==
    CnnCommit([cnn EXCEPT !.scanPlaying = ~@], "CnnToggleScan", cnn.scanPlaying)

\* onClick={() => setIterPlaying((v) => !v)}
CnnToggleIter ==
    CnnCommit([cnn EXCEPT !.iterPlaying = ~@], "CnnToggleIter", cnn.iterPlaying)

\* Scan speed slider: onChange={(e) => setScanSpeed(Number(e.target.value))}
CnnSetScanSpeed(ms) ==
    /\ ms # cnn.scanSpeed
    /\ CnnCommit([cnn EXCEPT !.scanSpeed = ms], "CnnSetScanSpeed", cnn.scanPlaying)

\* Training iteration slider: onChange={(e) => setIteration(Number(e.target.value))}
CnnSetIteration(v) ==
    CnnCommit([cnn EXCEPT !.iteration = v], "CnnSetIteration", cnn.iterPlaying)

\* Dropout rate slider: onChange={(e) => setDropRate(Number(e.target.value))}
CnnSetDropRate == CnnCommit(cnn, "CnnSetDropRate", cnn.scanPlaying)

CnnScanTick ==
    \E tm \in timers :
        /\ tm.cursor = "scanIndex"
        /\ CnnCommit([cnn EXCEPT !.scanIndex = ScanAdvance(@)], "CnnScanTick",
                     cnn.scanPlaying)

CnnIterTick ==
    \E tm \in timers :
        /\ tm.cursor = "iteration"
        /\ CnnCommit([cnn EXCEPT !.iteration = IterAdvance(@)], "CnnIterTick",
                     cnn.iterPlaying)

CnnNext ==
    \/ CnnToggleScan
    \/ CnnToggleIter
    \/ \E ms \in ScanSpeeds : CnnSetScanSpeed(ms)
    \/ \E v \in IterationInputs : CnnSetIteration(v)
    \/ CnnSetDropRate
    \/ CnnScanTick
    \/ CnnIterTick

(***************************************************************************)
(* LLMFlowViz                                                              *)
(***************************************************************************)
FlowCommit(f, op) ==
    /\ panel = "llmflow" /\ ~crashed
    /\ last' = Did(op, flow.playing)
    /\ flow' = f
    /\ timers' = FlowTimerEffect(f)
    /\ UNCHANGED <<panel, crashed, gd, rnn, llm, svd, cnn>>
    /\ UNCHANGED loaderVars
    /\ UNCHANGED shellVars
    /\ UNCHANGED toolVars

\* onClick={() => setPlaying((v) => !v)}
FlowTogglePlay == FlowCommit([flow EXCEPT !.playing = ~@], "FlowTogglePlay")

\* onClick={() => setActive((s) => Math.max(0, s - 1))}
FlowPrev == FlowCommit([flow EXCEPT !.active = Max(0, @ - 1)], "FlowPrev")

\* onClick={() => setActive((s) => Math.min(STEPS.length - 1, s + 1))}
FlowNextStage == FlowCommit([flow EXCEPT !.active = Min(FlowSteps - 1, @ + 1)], "FlowNext")

\* Speed slider: onChange={(e) => setSpeed(Number(e.target.value))}
FlowSetSpeed(ms) ==
    /\ ms # flow.speed
    /\ FlowCommit([flow EXCEPT !.speed = ms], "FlowSetSpeed")

FlowTick ==
    \E tm \in timers :
        /\ tm.cursor = "active"
        /\ FlowCommit([flow EXCEPT !.active = FlowAdvance(@)], "FlowTick")

FlowNext ==
    \/ FlowTogglePlay
    \/ FlowPrev
    \/ FlowNextStage
    \/ \E ms \in FlowSpeeds : FlowSetSpeed(ms)
    \/ FlowTick

(***************************************************************************)
(* The tab shell of App: the tab query parameter, the session history,     *)
(* the lazily imported PCA panel and its error boundary.                   *)
(***************************************************************************)
\* new URL(window.location.href).searchParams.get("tab") when the URL has no
\* tab parameter
NoTab == "null"

\* the raw tab parameter of the URLs the page is opened with: none, empty,
\* unknown ids, and concept ids
UrlTabInputs == {NoTab, "", "bogus", "SVD", "svd", "pca", "gd"}

\* the tab buttons clicked: the default tab, the lazily loaded PCA tab and
\* one other
ClickTabs == {"svd", "pca", "rnn"}

\* if (!value) return false; return concepts.some((concept) => concept.id === value);
isConceptId(value) ==
    IF value = NoTab \/ value = "" THEN FALSE ELSE \E concept \in Concepts : concept = value

\* Variant of getTabFromUrl that returns the raw parameter unvalidated.
getTabFromUrlRaw(raw) == raw

\* const raw = ...searchParams.get("tab"); return isConceptId(raw) ? raw : DEFAULT_TAB;
getTabFromUrl(raw) == IF isConceptId(raw) THEN raw ELSE DEFAULT_TAB

\* What a history write leaves: the entries, the current index, the call made.
Written(entries, idx, wrote) == [entries |-> entries, idx |-> idx, wrote |-> wrote]

\* Variant of updateUrlTab that ignores its replace argument and always pushes.
updateUrlTabAlwaysPush(h, i, tab, replace) ==
    Written(Append(SubSeq(h, 1, i), tab), i + 1, "push")

\* url.searchParams.set("tab", tab), then history.replaceState (the current
\* entry is overwritten) or history.pushState (the entries after the current
\* one are dropped and a new one is appended and made current).
updateUrlTab(h, i, tab, replace) ==
    IF replace
    THEN Written([h EXCEPT ![i] = tab], i, "replace")
    ELSE Written(Append(SubSeq(h, 1, i), tab), i + 1, "push")

\* Variant of the [active] effect that never rewrites the URL.
UrlEffectMissing(h, i, active) == Written(h, i, "none")

\* useEffect(() => { const raw = ...get("tab"); if (!isConceptId(raw))
\* updateUrlTab(active, true); }, [active])
UrlEffect(h, i, active) ==
    IF ~isConceptId(h[i]) THEN updateUrlTab(h, i, active, TRUE) ELSE Written(h, i, "none")

\* Variant of the popstate listener that leaves the active tab alone.
onPopStateIgnored(raw) == panel

\* const onPopState = () => { setActive(getTabFromUrl()); };
onPopState(raw) == getTabFromUrl(raw)

\* window.setTimeout(resolve, 350) in lazyWithRetry
RetryDelayMs == 350

\* The React.lazy payload: the importer has not been called, its first call
\* is pending, the retry delay is running, its second call is pending, or
\* the payload has settled.
Lazy(status, delay) == [status |-> status, delay |-> delay]

\* Variant of the catch branch of lazyWithRetry that starts another delay
\* when the second import fails too.
secondFailureRetries == Lazy("delay", RetryDelayMs)

\* catch { await delay; return importer(); }: a failure of the second import
\* rejects the promise React.lazy holds.
secondFailure == Lazy("rejected", 0)

\* An application without LazyChunkBoundary: the rejected chunk is an
\* uncaught render error.
NoChunkBoundary == [hasError |-> FALSE, crashed |-> TRUE]

\* static getDerivedStateFromError() { return { hasError: true }; }
getDerivedStateFromError == [hasError |-> TRUE, crashed |-> FALSE]

\* What the PCA tab shows.
PcaShows ==
    IF panel # "pca" THEN "none"
    ELSE IF hasError THEN "chunk-fallback"
    ELSE IF \E v \in 1..Len(views) : views[v].mounted /\ views[v].loadError # "" THEN "fixture-error"
    ELSE "other"

Handled(op, wrote) == [op |-> op, wrote |-> wrote, left |-> PcaShows]

\* The visualizers are remounted at their defaults.
FreshPanels(to) ==
    /\ gd' = GdDefault /\ rnn' = RnnDefault /\ llm' = LlmDefault
    /\ svd' = SvdDefault /\ cnn' = CnnDefault /\ flow' = FlowDefault
    /\ UNCHANGED last

\* Render of <LazyChunkBoundary><Suspense><PCAViz /></Suspense></LazyChunkBoundary>
\* by a freshly mounted boundary: React.lazy calls the importer on the first
\* render, suspends while the payload is pending, renders PCAViz once it has
\* resolved, and rethrows the stored error once it has rejected.
RenderLazy ==
    CASE lazyPCA.status = "uninitialized" ->
            /\ lazyPCA' = Lazy("importing", 0)
            /\ imports' = imports + 1
            /\ hasError' = FALSE
            /\ timers' = {}
            /\ UNCHANGED crashed
            /\ UNCHANGED loaderVars
      [] lazyPCA.status = "resolved" ->
            /\ Len(views) < MaxPanelViews
            /\ MountPCAViz
            /\ hasError' = FALSE
            /\ timers' = {}
            /\ UNCHANGED <<lazyPCA, imports, crashed>>
      [] lazyPCA.status = "rejected" ->
            /\ hasError' = getDerivedStateFromError.hasError
            /\ crashed' = getDerivedStateFromError.crashed
            /\ timers' = {}
            /\ UNCHANGED <<lazyPCA, imports>>
            /\ UNCHANGED loaderVars
      [] OTHER ->
            /\ hasError' = FALSE
            /\ timers' = {}
            /\ UNCHANGED <<lazyPCA, imports, crashed>>
            /\ UNCHANGED loaderVars

\* App re-renders with a new active tab: the old panel is unmounted (its
\* effect cleanups run, the boundary and its state are dropped) and the new
\* one is mounted.
ShowPanel(to) ==
    /\ panel' = to
    /\ FreshPanels(to)
    /\ IF to = "pca"
       THEN RenderLazy
       ELSE /\ timers' = MountTimers(to)
            /\ hasError' = FALSE
            /\ views' = [v \in 1..Len(views) |->
                            [views[v] EXCEPT !.mounted = FALSE, !.active = FALSE]]
            /\ UNCHANGED <<pcaDataCache, pcaDataPromise, fetches, unhandled>>
            /\ UNCHANGED <<lazyPCA, imports, crashed>>

\* App re-renders nothing.
KeepPanel ==
    /\ UNCHANGED <<panel, crashed, gd, rnn, llm, svd, cnn, flow, timers, last>>
    /\ UNCHANGED <<lazyPCA, imports, hasError>>
    /\ UNCHANGED loaderVars

\* The passive effects of the first commit: the [active] effect checks the
\* URL, the popstate listener is registered.
AppEffect ==
    /\ UNCHANGED toolVars
    /\ appPhase = "rendered"
    /\ LET w == UrlEffect(history, histIdx, panel) IN
        /\ history' = w.entries
        /\ histIdx' = w.idx
        /\ shellLast' = Handled("effect", w.wrote)
    /\ appPhase' = "ready"
    /\ KeepPanel

\* Variant of changeTab without the early return for the active tab.
TabClickNoGuard(tab) ==
    /\ UNCHANGED toolVars
    /\ appPhase = "ready" /\ ~crashed /\ MicrotasksIdle
    /\ histIdx < MaxHistory
    /\ LET w == updateUrlTab(history, histIdx, tab, FALSE) IN
        /\ history' = w.entries
        /\ histIdx' = w.idx
        /\ shellLast' = Handled("changeTab", w.wrote)
    /\ IF tab = panel THEN KeepPanel ELSE ShowPanel(tab)
    /\ UNCHANGED appPhase

\* A click on a tab button: changeTab(tab), the re-render, and the [active]
\* effect, which finds the tab parameter just written.
TabClick(tab) ==
    /\ UNCHANGED toolVars
    /\ appPhase = "ready" /\ ~crashed /\ MicrotasksIdle
    /\ IF tab = panel
       THEN /\ shellLast' = Handled("changeTab", "none")
            /\ UNCHANGED <<history, histIdx>>
            /\ KeepPanel
       ELSE /\ histIdx < MaxHistory
            /\ LET w == updateUrlTab(history, histIdx, tab, FALSE)
                   e == UrlEffect(w.entries, w.idx, tab) IN
                /\ history' = e.entries
                /\ histIdx' = e.idx
                /\ shellLast' = Handled("changeTab", w.wrote)
            /\ ShowPanel(tab)
    /\ UNCHANGED appPhase

\* The user goes back (d = -1) or forward (d = 1): the browser makes the
\* entry current and fires popstate; the listener sets active from the URL,
\* and when active changed App re-renders and the [active] effect runs.
PopState(d) ==
    /\ UNCHANGED toolVars
    /\ appPhase = "ready" /\ ~crashed /\ MicrotasksIdle
    /\ histIdx + d \in 1..Len(history)
    /\ LET to == onPopState(history[histIdx + d]) IN
        IF to = panel
        THEN /\ histIdx' = histIdx + d
             /\ shellLast' = Handled("popstate", "none")
             /\ UNCHANGED history
             /\ KeepPanel
        ELSE /\ LET e == UrlEffect(history, histIdx + d, to) IN
                /\ history' = e.entries
                /\ histIdx' = e.idx
                /\ shellLast' = Handled("popstate", e.wrote)
             /\ ShowPanel(to)
    /\ UNCHANGED appPhase

\* The lazy payload resolves: when the PCA tab is showing its Suspense
\* fallback, PCAViz mounts.
LazyResolved ==
    /\ lazyPCA' = Lazy("resolved", 0)
    /\ IF panel = "pca" /\ ~crashed
       THEN Len(views) < MaxPanelViews /\ MountPCAViz
       ELSE UNCHANGED loaderVars
    /\ UNCHANGED <<panel, crashed, gd, rnn, llm, svd, cnn, flow, timers, last>>
    /\ UNCHANGED <<history, histIdx, appPhase, imports, hasError, shellLast>>

\* lazyWithRetry, first importer() call settles: try { return await importer(); }
\* catch { await new Promise((resolve) => window.setTimeout(resolve, 350)); ... }
ImportSettled(ok) ==
    /\ UNCHANGED toolVars
    /\ appPhase = "ready" /\ MicrotasksIdle
    /\ lazyPCA.status = "importing"
    /\ IF ok
       THEN LazyResolved
       ELSE /\ lazyPCA' = Lazy("delay", RetryDelayMs)
            /\ UNCHANGED <<imports, hasError>>
            /\ UNCHANGED <<panel, crashed, gd, rnn, llm, svd, cnn, flow, timers, last>>
            /\ UNCHANGED <<history, histIdx, appPhase, shellLast>>
            /\ UNCHANGED loaderVars

\* The 350 ms timer fires: return importer();
RetryTimer ==
    /\ UNCHANGED toolVars
    /\ appPhase = "ready" /\ MicrotasksIdle
    /\ lazyPCA.status = "delay"
    /\ lazyPCA' = Lazy("retrying", 0)
    /\ imports' = imports + 1
    /\ UNCHANGED hasError
    /\ UNCHANGED <<panel, crashed, gd, rnn, llm, svd, cnn, flow, timers, last>>
    /\ UNCHANGED <<history, histIdx, appPhase, shellLast>>
    /\ UNCHANGED loaderVars

\* The second importer() call settles; its failure rejects the payload and,
\* when the PCA tab is showing, the boundary catches the error thrown by the
\* re-render.
RetrySettled(ok) ==
    /\ UNCHANGED toolVars
    /\ appPhase = "ready" /\ MicrotasksIdle
    /\ lazyPCA.status = "retrying"
    /\ IF ok
       THEN LazyResolved
       ELSE /\ lazyPCA' = secondFailure
            /\ IF secondFailure.status = "rejected" /\ panel = "pca" /\ ~crashed
               THEN /\ hasError' = getDerivedStateFromError.hasError
                    /\ crashed' = getDerivedStateFromError.crashed
               ELSE UNCHANGED <<hasError, crashed>>
            /\ UNCHANGED imports
            /\ UNCHANGED <<panel, gd, rnn, llm, svd, cnn, flow, timers, last>>
            /\ UNCHANGED <<history, histIdx, appPhase, shellLast>>
            /\ UNCHANGED loaderVars

(***************************************************************************)
(* The fixture file in the repository: the precompute job that writes it,  *)
(* the pre-commit hook that re-stages it, the app that fetches it.         *)
(***************************************************************************)
\* await Bun.write("src/data/pca-presets.json", JSON.stringify(artifact));
PrecomputeOutput == "src/data/pca-presets.json"
\* execSync("git add public/data/pca-presets.json")
HookArtifact == "public/data/pca-presets.json"
\* fetch("/data/pca-presets.json"): the static file served from public/
FetchedArtifact == "public/data/pca-presets.json"

ArtifactPaths == {PrecomputeOutput, HookArtifact, FetchedArtifact}

TRIGGER_FILES ==
    {"scripts/precompute-pca.ts", "src/components/PCAViz.tsx", "public/data/pca-presets.json"}

\* the files a developer stages before committing
StageInputs == TRIGGER_FILES \cup {"README.md", PrecomputeOutput}

\* The working tree holds the artifact files, each with the number of the
\* job run that wrote it (0: the file as checked out); the index holds the
\* artifact versions staged; staged is the output of git diff --cached
\* --name-only; served is the version the app fetched last (-1: none yet).
InitRepo ==
    [files |-> [f \in ArtifactPaths |-> 0],
     index |-> [f \in ArtifactPaths |-> 0],
     staged |-> {},
     runs |-> 0,
     hook |-> "none",
     served |-> -1]

\* bun run precompute:pca: the job writes its artifact, overwriting the file.
precompute(r) ==
    [r EXCEPT !.files[PrecomputeOutput] = r.runs + 1, !.runs = r.runs + 1]

\* git add <file>
gitAdd(r, file) ==
    IF file \in ArtifactPaths
    THEN [r EXCEPT !.index[file] = r.files[file],
                   !.staged = IF r.index[file] # r.files[file] THEN @ \cup {file} ELSE @]
    ELSE [r EXCEPT !.staged = @ \cup {file}]

RunPrecompute ==
    /\ repo.runs < MaxRuns
    /\ repo' = [precompute(repo) EXCEPT !.hook = "none"]
    /\ UNCHANGED <<calc, earlier>>
    /\ UNCHANGED loaderVars /\ UNCHANGED vizVars /\ UNCHANGED shellVars

GitAdd(file) ==
    /\ repo' = [gitAdd(repo, file) EXCEPT !.hook = "none"]
    /\ UNCHANGED <<calc, earlier>>
    /\ UNCHANGED loaderVars /\ UNCHANGED vizVars /\ UNCHANGED shellVars

\* precommit-pca.js, then the commit: without a staged trigger file the
\* hook exits; otherwise it runs the job and stages the artifact.
Precommit ==
    /\ repo.staged # {}
    /\ LET shouldPrecompute == \E file \in repo.staged : file \in TRIGGER_FILES IN
        IF ~shouldPrecompute
        THEN repo' = [repo EXCEPT !.staged = {}, !.hook = "skipped"]
        ELSE /\ repo.runs < MaxRuns
             /\ repo' = [gitAdd(precompute(repo), HookArtifact) EXCEPT
                            !.staged = {}, !.hook = "ran"]
    /\ UNCHANGED <<calc, earlier>>
    /\ UNCHANGED loaderVars /\ UNCHANGED vizVars /\ UNCHANGED shellVars

\* The app's fetch is answered from the file under public/.
AppFetch ==
    /\ repo' = [repo EXCEPT !.served = repo.files[FetchedArtifact], !.hook = "none"]
    /\ UNCHANGED <<calc, earlier>>
    /\ UNCHANGED loaderVars /\ UNCHANGED vizVars /\ UNCHANGED shellVars

\* No derivation has been evaluated.
NoCall == [fn |-> "none", in |-> <<>>, out |-> <<>>]

InitTools ==
    /\ calc = NoCall
    /\ earlier = NoCall
    /\ repo = InitRepo

(***************************************************************************)
(* Derivations.  Each visualizer recomputes its derived values from its    *)
(* state on every render (useMemo bodies and module-level functions).      *)
(* `calc` records the latest evaluation and `earlier` the evaluation       *)
(* before it when both are of the same repeatable derivation.  Real        *)
(* numbers are carried as integers in a stated unit.                       *)
(***************************************************************************)
RECURSIVE SumOver(_, _, _)
\* f[lo] + f[lo + 1] + ... + f[hi], added left to right as the loops do.
SumOver(f, lo, hi) == IF hi < lo THEN 0 ELSE SumOver(f, lo, hi - 1) + f[hi]

Abs(a) == IF a < 0 THEN -a ELSE a

\* Derivations whose previous evaluation is kept for comparison.
Repeatable == {"runDescent", "droppedMask"}

Evaluate(fn, in, out) ==
    /\ calc' = [fn |-> fn, in |-> in, out |-> out]
    /\ earlier' = IF fn \in Repeatable /\ calc.fn = fn THEN calc ELSE NoCall
    /\ UNCHANGED repo
    /\ UNCHANGED loaderVars /\ UNCHANGED vizVars /\ UNCHANGED shellVars

(***************************************************************************)
(* CNNViz.  Pixels are in hundredths: 0.2 is 20, 0.75 is 75, 1 is 100.     *)
(***************************************************************************)
Pixels == 0..(IMAGE_SIZE - 1)

buildSampleImage ==
    LET face(x, y) ==
            IF /\ x \in 2..(IMAGE_SIZE - 3)
               /\ y \in 2..(IMAGE_SIZE - 3)
               /\ (x - 7) * (x - 7) + (y - 7) * (y - 7) <= 24
            THEN 20 ELSE 0
        marks(x, y) ==
            IF y = 5 /\ x \in {5, 9} THEN 100
            ELSE IF y = 9 /\ x \in 4..9 THEN 90
            ELSE face(x, y)
        border(x, y) ==
            \/ x \in {2, 11} /\ y \in 2..11
            \/ y \in {2, 11} /\ x \in 2..11
    IN [y \in Pixels |-> [x \in Pixels |->
            IF border(x, y) THEN Max(marks(x, y), 75) ELSE marks(x, y)]]

\* [[-1, 0, 1], [-1, 0, 1], [-1, 0, 1]], indexed from 0.
kernel == [ky \in 0..(KERNEL_SIZE - 1) |-> [kx \in 0..(KERNEL_SIZE - 1) |-> kx - 1]]

\* Same-size convolution with zero padding; each output is the absolute sum.
conv2d(image, ker) ==
    LET pad == KERNEL_SIZE \div 2
        pixel(iy, ix) == IF iy \in Pixels /\ ix \in Pixels THEN image[iy][ix] ELSE 0
        cell(y, x) ==
            SumOver([ky \in 0..(KERNEL_SIZE - 1) |->
                SumOver([kx \in 0..(KERNEL_SIZE - 1) |->
                    pixel(y + ky - pad, x + kx - pad) * ker[ky][kx]], 0, KERNEL_SIZE - 1)],
                0, KERNEL_SIZE - 1)
    IN [y \in Pixels |-> [x \in Pixels |-> Abs(cell(y, x))]]

convMap == conv2d(buildSampleImage, kernel)

\* The top-left corners of the kernel window, rows outermost.
ScanSide == IMAGE_SIZE - KERNEL_SIZE + 1
scanPositions ==
    [i \in 0..(ScanSide * ScanSide - 1) |-> [x |-> i % ScanSide, y |-> i \div ScanSide]]

patchTransposed(scanPos) ==
    [y \in 0..(KERNEL_SIZE - 1) |-> [x \in 0..(KERNEL_SIZE - 1) |->
        buildSampleImage[scanPos.y + x][scanPos.x + y]]]

patch(scanPos) ==
    [y \in 0..(KERNEL_SIZE - 1) |-> [x \in 0..(KERNEL_SIZE - 1) |->
        buildSampleImage[scanPos.y + y][scanPos.x + x]]]

patchActivation(scanPos) ==
    Abs(SumOver([y \in 0..(KERNEL_SIZE - 1) |->
            SumOver([x \in 0..(KERNEL_SIZE - 1) |-> patch(scanPos)[y][x] * kernel[y][x]],
                    0, KERNEL_SIZE - 1)],
        0, KERNEL_SIZE - 1))

\* The feature-map cell drawn as the focus of the scan.
focusCell(scanPos) == [x |-> scanPos.x + 1, y |-> scanPos.y + 1]

\* One render of the convolution panel with the scan at scanIndex.
CalcScan(scanIndex) ==
    LET scanPos == scanPositions[scanIndex] IN
    Evaluate("scan", <<scanIndex>>,
             [scanPos |-> scanPos,
              patchActivation |-> patchActivation(scanPos),
              focus |-> focusCell(scanPos)])

\* Math.sin and Math.cos on thousandths of a radian, giving thousandths
\* (Bhaskara's rational approximation on each half period).
Sin(a) ==
    LET half(r) == LET p == (r * (3142 - r)) \div 100 IN (16000 * p) \div (493480 - 4 * p)
        r == a % 6284
    IN IF r <= 3142 THEN half(r) ELSE -half(r - 3142)

Cos(a) == Sin(a + 1571)

\* Math.sin of seed * 12.9898, the argument reduced modulo the period.
randUnit(seed) ==
    LET x == Sin(((seed % 6284) * (12990 % 6284)) % 6284) * 43758
    IN x % 1000

\* vector = flatten(maxPool2x2(convMap)) has one entry per pooled cell.
VectorLength == (IMAGE_SIZE \div 2) * (IMAGE_SIZE \div 2)

\* true = the unit is kept; dropRate in thousandths.
droppedMask(iteration, dropRate) ==
    [idx \in 0..(VectorLength - 1) |-> randUnit(iteration * 1000 + idx * 37) > dropRate]

DropRates == {100, 350, 750}

CalcDropMask(iteration, dropRate) ==
    Evaluate("droppedMask", <<iteration, dropRate>>, droppedMask(iteration, dropRate))

(***************************************************************************)
(* GradientDescentViz.  Coordinates, losses and the learning rate are in   *)
(* thousandths.                                                            *)
(***************************************************************************)
loss(x, y) ==
    (8 * x * x) \div 10000 + (24 * y * y) \div 10000 + (6 * x * y) \div 10000
        + (15 * Sin((8 * x) \div 10) * Cos((8 * y) \div 10)) \div 10000

grad(x, y) ==
    [x |-> (16 * x) \div 10 + (6 * y) \div 10
            + (12 * Cos((8 * x) \div 10) * Cos((8 * y) \div 10)) \div 10000,
     y |-> (48 * y) \div 10 + (6 * x) \div 10
            - (12 * Sin((8 * x) \div 10) * Sin((8 * y) \div 10)) \div 10000]

RECURSIVE descend(_, _, _, _)
\* The loop of runDescent: i more updates, each pushed onto path.
descend(p, lr, i, path) ==
    IF i = 0 THEN path
    ELSE LET g == grad(p.x, p.y)
             q == [x |-> p.x - (lr * g.x) \div 1000, y |-> p.y - (lr * g.y) \div 1000]
         IN descend(q, lr, i - 1, Append(path, [x |-> q.x, y |-> q.y, z |-> loss(q.x, q.y)]))

\* A descent that resumes from where the previous evaluation ended.
runDescentResuming(start, lr, steps) ==
    LET from == IF calc.fn = "runDescent"
                THEN [x |-> calc.out[Len(calc.out)].x, y |-> calc.out[Len(calc.out)].y]
                ELSE start
    IN descend(from, lr, steps, <<[x |-> from.x, y |-> from.y, z |-> loss(from.x, from.y)]>>)

runDescent(start, lr, steps) ==
    descend(start, lr, steps, <<[x |-> start.x, y |-> start.y, z |-> loss(start.x, start.y)]>>)

\* the default start, a corner of the start sliders and the origin
GdStarts == {[x |-> 3000, y |-> -2200], [x |-> -3800, y |-> 3800], [x |-> 0, y |-> 0]}
\* the default learning rate and the slider's maximum
DescentLrs == {80, 220}

CalcRunDescent(start, lr, steps) ==
    Evaluate("runDescent", <<start, lr, steps>>, runDescent(start, lr, steps))

(***************************************************************************)
(* Division of non-negative integers to n decimal places, rounded to the   *)
(* nearest as a floating-point division is: the result counts units of     *)
(* 10^-n.                                                                  *)
(***************************************************************************)
RECURSIVE Digits(_, _, _, _)
Digits(r, s, n, q) ==
    IF n = 0 THEN (IF 2 * r >= s THEN q + 1 ELSE q)
    ELSE Digits((r * 10) % s, s, n - 1, q * 10 + (r * 10) \div s)

Quotient(v, s, n) == Digits(v % s, s, n, v \div s)

(***************************************************************************)
(* LLMViz.  Raw attention scores count units of 1/50400 (every 0.15/d and  *)
(* 1/dist with d, dist in 1..9 is a whole number of them); normalized      *)
(* weights count units of 10^-7.                                           *)
(***************************************************************************)
ScoreUnit == 20 * 2520
FxOne == 10 * 1000 * 1000

ROLES == <<"subject", "verb", "object", "connector", "verb", "object", "prep", "object", "adverb">>
TOPIC == <<"agent", "analysis", "analysis", "link", "writing", "writing", "target", "target", "time">>

Last(values) == Cardinality(DOMAIN values) - 1

normalizeByMax(values) ==
    LET top == CHOOSE m \in {values[k] : k \in DOMAIN values} :
                   \A k \in DOMAIN values : values[k] <= m
    IN [k \in DOMAIN values |-> Quotient(values[k], top, 7)]

normalize(values) ==
    LET sum == SumOver(values, 0, Last(values))
        s == IF sum = 0 THEN ScoreUnit ELSE sum
    IN [k \in DOMAIN values |-> Quotient(values[k], s, 7)]

\* The nearest index left of idx whose role is in roles, or -1.
nearestLeft(idx, roles) ==
    LET hits == {i \in 0..(idx - 1) : ROLES[i + 1] \in roles}
    IN IF hits = {} THEN -1 ELSE CHOOSE i \in hits : \A j \in hits : j <= i

At(cond, amount) == IF cond THEN amount ELSE 0

head1Row(qi) ==
    LET role == ROLES[qi + 1]
        subj == nearestLeft(qi, {"subject", "object"})
        v == nearestLeft(qi, {"verb"})
        byRole(k) ==
            IF role = "verb"
            THEN At(subj >= 0 /\ k = subj, (22 * ScoreUnit) \div 10)
                    + At(qi > 0 /\ k = qi - 1, (9 * ScoreUnit) \div 10)
            ELSE IF role = "object"
            THEN At(v >= 0 /\ k = v, (24 * ScoreUnit) \div 10)
                    + At(qi > 0 /\ k = qi - 1, (7 * ScoreUnit) \div 10)
            ELSE IF role = "adverb"
            THEN At(v >= 0 /\ k = v, (18 * ScoreUnit) \div 10)
            ELSE At(qi > 0 /\ k = qi - 1, (11 * ScoreUnit) \div 10)
                    + At(k = qi, (4 * ScoreUnit) \div 10)
        row == [k \in 0..qi |->
                   (2 * ScoreUnit) \div 100 + byRole(k)
                       + ((15 * ScoreUnit) \div 100) \div (qi - k + 1)]
    IN normalize(row)

head2Row(qi) ==
    LET queryTopic == TOPIC[qi + 1]
        row == [k \in 0..qi |->
                   (2 * ScoreUnit) \div 100
                       + At(ROLES[k + 1] \in {"subject", "verb", "object"},
                            ScoreUnit \div (qi - k + 1))
                       + At(TOPIC[k + 1] = queryTopic, (14 * ScoreUnit) \div 10)
                       + At(k = qi, (4 * ScoreUnit) \div 10)]
    IN normalize(row)

rowToSquare(row, size) ==
    [i \in 0..(size - 1) |-> IF i <= Last(row) THEN row[i] ELSE 0]

h1(n) == [qi \in 0..(n - 1) |-> rowToSquare(head1Row(qi), n)]
h2(n) == [qi \in 0..(n - 1) |-> rowToSquare(head2Row(qi), n)]

\* The Head blend slider in twentieths: blend = b / BlendSteps.
BlendSteps == 4 * 5

merged(n, b) ==
    [qi \in 0..(n - 1) |->
        LET row == [k \in 0..(n - 1) |-> b * h1(n)[qi][k] + (BlendSteps - b) * h2(n)[qi][k]]
            sum == SumOver(row, 0, qi)
            s == IF sum = 0 THEN BlendSteps * FxOne ELSE sum
        IN [k \in 0..(n - 1) |-> IF k <= qi THEN Quotient(row[k], s, 7) ELSE 0]]

\* One cell of renderMatrix: its class and its inline style.
cellUnmasked(v, r, c, queryIdx, cellSize) ==
    LET masked == FALSE
        active == r = queryIdx
    IN [className |-> IF masked THEN "llm-cell llm-cell-mask"
                      ELSE IF active THEN "llm-cell llm-cell-active" ELSE "llm-cell",
        style |-> IF masked THEN [width |-> cellSize, height |-> cellSize]
                  ELSE [width |-> cellSize, height |-> cellSize,
                        background |-> (8 * FxOne + 92 * v) \div 100]]

cell(v, r, c, queryIdx, cellSize) ==
    LET masked == c > r
        active == r = queryIdx
    IN [className |-> IF masked THEN "llm-cell llm-cell-mask"
                      ELSE IF active THEN "llm-cell llm-cell-active" ELSE "llm-cell",
        style |-> IF masked THEN [width |-> cellSize, height |-> cellSize]
                  ELSE [width |-> cellSize, height |-> cellSize,
                        background |-> (8 * FxOne + 92 * v) \div 100]]

renderMatrix(matrix, n, cellSize) ==
    [r \in 0..(n - 1) |-> [c \in 0..(n - 1) |-> cell(matrix[r][c], r, c, n - 1, cellSize)]]

ContextLens == LlmMinContext..LlmTokens
CellSizes == {8, 14}

CalcHead1(qi) == Evaluate("head1Row", <<qi>>, head1Row(qi))
CalcHead2(qi) == Evaluate("head2Row", <<qi>>, head2Row(qi))
CalcMerged(n, b) == Evaluate("merged", <<n, b>>, merged(n, b))
CalcMatrix(kind, n, cellSize) ==
    Evaluate("renderMatrix", <<kind, n, cellSize>>,
             renderMatrix(IF kind = "syntax" THEN h1(n) ELSE h2(n), n, cellSize))

(***************************************************************************)
(* softmax.  Logits are in thousandths, temperatures in hundredths,        *)
(* exponentials count units of 10^-4 and probabilities units of 10^-9.     *)
(***************************************************************************)
ExpOne == 10 * 1000
ProbOne == 1000 * 1000 * 1000

RECURSIVE Power(_, _)
\* base^k for base in units of 10^-4
Power(base, k) == IF k = 0 THEN ExpOne ELSE (Power(base, k - 1) * base) \div ExpOne

\* Math.exp(-d / 1000) for d >= 0, from e^-1, e^-0.1, e^-0.01 and e^-0.001.
ExpNeg(d) ==
    IF d >= 10000 THEN 0
    ELSE LET a == Power(3679, d \div 1000)
             b == Power(9048, (d \div 100) % 10)
             c == Power(9900, (d \div 10) % 10)
             e == Power(9990, d % 10)
         IN (((((a * b) \div ExpOne) * c) \div ExpOne) * e) \div ExpOne

Greatest(values) ==
    CHOOSE m \in {values[k] : k \in DOMAIN values} : \A k \in DOMAIN values : values[k] <= m

\* v / (s + 1e-9): the quotient by s less its product with 1e-9 / s.
OverSum(v, s) ==
    LET q == Quotient(v, s, 9) IN q - (q \div (100 * 1000)) \div s

softmax(values, temperature) ==
    LET t == Max(5, temperature)
        scaled == [k \in DOMAIN values |-> (values[k] * 100) \div t]
        m == Greatest(scaled)
        exps == [k \in DOMAIN values |-> ExpNeg(m - scaled[k])]
        s == SumOver(exps, 0, Last(exps))
    IN [k \in DOMAIN values |-> OverSum(exps[k], s)]

\* RNNViz's softmax has no temperature.
rnnSoftmax(values) ==
    LET m == Greatest(values)
        exps == [k \in DOMAIN values |-> ExpNeg(m - values[k])]
        s == SumOver(exps, 0, Last(exps))
    IN [k \in DOMAIN values |-> OverSum(exps[k], s)]

\* one logit per candidate token (NEXT_VOCAB and VOCAB have five each)
VocabSize == 5
LogitValues == {-3000, 0, 2500}
LogitInputs == [0..(VocabSize - 1) -> LogitValues]
\* the ends of the Temperature slider and its default
Temperatures == {40, 100, 180}

CalcSoftmax(values, temperature) ==
    Evaluate("softmax", <<values, temperature>>, softmax(values, temperature))
CalcRnnSoftmax(values) == Evaluate("rnnSoftmax", <<values>>, rnnSoftmax(values))

(***************************************************************************)
(* RNNViz memory influence.  dist[idx] stands for the distance             *)
(* l2(baseState, alt.states[t]) obtained by blanking token idx, in         *)
(* thousandths; the bars show each distance over the greatest.             *)
(***************************************************************************)
influence(t, dist) ==
    LET raw == [idx \in 0..(RnnTokens - 1) |-> IF idx > t THEN 0 ELSE dist[idx]]
        max == Greatest(raw)
    IN [idx \in 0..(RnnTokens - 1) |->
            IF max = 0 THEN 0 ELSE Quotient(raw[idx], max, 3)]

memoryBar(idx, t, value) ==
    [value |-> value,
     className |-> IF idx <= t THEN "rnn-memory-bar" ELSE "rnn-memory-bar rnn-memory-future",
     height |-> 8000 + value * 54]

DistInputs == [0..(RnnTokens - 1) -> {0, 700}]

CalcInfluence(t, dist) ==
    Evaluate("influence", <<t, dist>>,
             [idx \in 0..(RnnTokens - 1) |-> memoryBar(idx, t, influence(t, dist)[idx])])

InitLoader ==
    /\ pcaDataCache = Null
    /\ pcaDataPromise = Null
    /\ fetches = <<>>
    /\ unhandled = 0
    /\ views = <<>>

InitPanels ==
    /\ crashed = FALSE
    /\ gd = GdDefault /\ rnn = RnnDefault /\ llm = LlmDefault
    /\ svd = SvdDefault /\ cnn = CnnDefault /\ flow = FlowDefault
    /\ timers = MountTimers(panel)
    /\ last = Did("mount", FALSE)

\* The page opened at the default tab, with the effects of the first commit
\* already run.
Init ==
    /\ InitLoader
    /\ panel = DEFAULT_TAB
    /\ InitPanels
    /\ history = <<DEFAULT_TAB>>
    /\ histIdx = 1
    /\ appPhase = "ready"
    /\ lazyPCA = Lazy("uninitialized", 0)
    /\ imports = 0
    /\ hasError = FALSE
    /\ shellLast = [op |-> "mount", wrote |-> "none", left |-> "none"]
    /\ InitTools

\* The page opened with any URL: useState(() => getTabFromUrl()) and the
\* first render, which calls the importer when the PCA tab is active.
InitShell ==
    /\ InitLoader
    /\ \E raw \in UrlTabInputs :
        /\ history = <<raw>>
        /\ panel = getTabFromUrl(raw)
    /\ InitPanels
    /\ histIdx = 1
    /\ appPhase = "rendered"
    /\ lazyPCA = (IF panel = "pca" THEN Lazy("importing", 0) ELSE Lazy("uninitialized", 0))
    /\ imports = (IF panel = "pca" THEN 1 ELSE 0)
    /\ hasError = FALSE
    /\ shellLast = [op |-> "mount", wrote |-> "none", left |-> "none"]
    /\ InitTools

NextLoader ==
    \/ PCAVizMount
    \/ \E v \in 1..Len(views) : PCAVizUnmount(v)
    \/ \E i \in 1..Len(fetches) : \E o \in {"ok", "http", "network"} : NetworkRespond(i, o)
    \/ \E i \in 1..Len(fetches) : \E g \in BOOLEAN : BodyParsed(i, g)
    \/ \E i \in 1..Len(fetches) : ThenCache(i)
    \/ \E i \in 1..Len(fetches) : CatchClear(i)
    \/ \E v \in 1..Len(views) : Deliver(v)

SpecLoader == Init /\ [][NextLoader]_vars

NextViz ==
    \/ \E tab \in Concepts : changeTab(tab)
    \/ GdNext
    \/ RnnNext
    \/ LlmNext
    \/ SvdNext
    \/ CnnNext
    \/ FlowNext

SpecViz == Init /\ [][NextViz]_vars

NextShell ==
    \/ AppEffect
    \/ \E tab \in ClickTabs : TabClick(tab)
    \/ \E d \in {-1, 1} : PopState(d)
    \/ \E ok \in BOOLEAN : ImportSettled(ok)
    \/ RetryTimer
    \/ \E ok \in BOOLEAN : RetrySettled(ok)
    \/ \E i \in 1..Len(fetches) : \E o \in {"ok", "http", "network"} : NetworkRespond(i, o)
    \/ \E i \in 1..Len(fetches) : \E g \in BOOLEAN : BodyParsed(i, g)
    \/ \E i \in 1..Len(fetches) : ThenCache(i)
    \/ \E i \in 1..Len(fetches) : CatchClear(i)
    \/ \E v \in 1..Len(views) : Deliver(v)

SpecShell == InitShell /\ [][NextShell]_vars

NextRepo ==
    \/ RunPrecompute
    \/ \E file \in StageInputs : GitAdd(file)
    \/ Precommit
    \/ AppFetch

SpecRepo == Init /\ [][NextRepo]_vars

NextDerive ==
    \/ \E scanIndex \in 0..(ScanPositions - 1) : CalcScan(scanIndex)
    \/ \E iteration \in IterationInputs, dropRate \in DropRates :
            CalcDropMask(iteration, dropRate)
    \/ \E start \in GdStarts, lr \in DescentLrs, steps \in StepsInputs :
            CalcRunDescent(start, lr, steps)
    \/ \E qi \in 0..(LlmTokens - 1) : CalcHead1(qi)
    \/ \E qi \in 0..(LlmTokens - 1) : CalcHead2(qi)
    \/ \E n \in ContextLens, b \in 0..BlendSteps : CalcMerged(n, b)
    \/ \E kind \in {"syntax", "semantic"}, n \in ContextLens, cellSize \in CellSizes :
            CalcMatrix(kind, n, cellSize)
    \/ \E values \in LogitInputs, temperature \in Temperatures :
            CalcSoftmax(values, temperature)
    \/ \E values \in LogitInputs : CalcRnnSoftmax(values)
    \/ \E t \in 0..(RnnTokens - 1), dist \in DistInputs : CalcInfluence(t, dist)

SpecDerive == Init /\ [][NextDerive]_vars

(***************************************************************************)
(* Playback left to itself: one of the visualizers that start playing is   *)
(* on screen (GradientDescentViz with any of the Steps settings), and only *)
(* its interval callbacks and its speed sliders act.  A live interval      *)
(* keeps firing, so each tick is weakly fair.                              *)
(***************************************************************************)
AutoPlayPanels == {"gd", "rnn", "llm", "cnn"}

InitPlay ==
    /\ InitLoader
    /\ panel \in AutoPlayPanels
    /\ crashed = FALSE
    /\ \E n \in StepsInputs : gd = [GdDefault EXCEPT !.steps = IF panel = "gd" THEN n ELSE @]
    /\ rnn = RnnDefault /\ llm = LlmDefault
    /\ svd = SvdDefault /\ cnn = CnnDefault /\ flow = FlowDefault
    /\ timers = (IF panel = "gd" THEN GdTimerEffect(gd) ELSE MountTimers(panel))
    /\ last = Did("mount", FALSE)
    /\ history = <<panel>>
    /\ histIdx = 1
    /\ appPhase = "ready"
    /\ lazyPCA = Lazy("uninitialized", 0)
    /\ imports = 0
    /\ hasError = FALSE
    /\ shellLast = [op |-> "mount", wrote |-> "none", left |-> "none"]
    /\ InitTools

NextAutoPlay ==
    \/ GdTick
    \/ RnnTick
    \/ LlmTick
    \/ CnnScanTick
    \/ CnnIterTick
    \/ \E ms \in GdSpeeds : GdSetSpeed(ms)
    \/ \E ms \in RnnSpeeds : RnnSetSpeed(ms)
    \/ \E ms \in LlmSpeeds : LlmSetSpeed(ms)
    \/ \E ms \in ScanSpeeds : CnnSetScanSpeed(ms)

SpecAutoPlay ==
    /\ InitPlay
    /\ [][NextAutoPlay]_vars
    /\ WF_vars(GdTick)
    /\ WF_vars(RnnTick)
    /\ WF_vars(LlmTick)
    /\ WF_vars(CnnScanTick)
    /\ WF_vars(CnnIterTick)

(***************************************************************************)
(* Claims about the fixture loader, checked under SpecLoader.              *)
(***************************************************************************)
Unsettled(fs) == {i \in 1..Len(fs) : fs[i].phase \notin {"fulfilled", "rejected"}}

\* C1: single flight. While no fetch has settled, any number of
\* loadPcaArtifact() calls issue exactly one network request and all callers
\* hold the same promise; and at any time a call made while a request is
\* unsettled issues none and returns that request's promise, so at most one
\* request is ever in flight.
SingleFlight ==
    /\ Cardinality(Unsettled(fetches)) <= 1
    /\ (views # <<>> /\ \A i \in 1..Len(fetches) : ~Settled(i)) =>
            /\ Len(fetches) = 1
            /\ \A v \in 1..Len(views) : views[v].ret = ChainPromise(1)
    /\ \A v \in 1..Len(views) : \A i \in Unsettled(views[v].pre.fetches) :
            ~views[v].issued /\ views[v].ret = ChainPromise(i)

\* Two callers joined the first request before it resolved (the first
\* PCAViz unmounted, a second one mounted).
SingleFlightWitness ==
    /\ Len(views) >= 2
    /\ Len(fetches) = 1
    /\ fetches[1].phase = "sent"
    /\ ~views[1].mounted
    /\ views[2].ret = ChainPromise(1)

\* C2: retry after failure. Once a request's chain is rejected the in-flight
\* marker does not name it and nothing was cached by it, and a
\* loadPcaArtifact() call made when the latest request had failed issued a
\* new request and returned its fresh promise, never the failed one.
RetryAfterFailure ==
    /\ \A i \in 1..Len(fetches) : fetches[i].phase = "rejected" =>
            pcaDataPromise # i /\ pcaDataCache # i
    /\ \A v \in 1..Len(views) :
        LET fs == views[v].pre.fetches IN
            (Len(fs) > 0 /\ fs[Len(fs)].phase = "rejected") =>
                /\ views[v].pre.promise = Null
                /\ views[v].pre.cache = Null
                /\ views[v].issued
                /\ views[v].ret = ChainPromise(Len(fs) + 1)

\* A PCAViz mounted after a failed load and started the second request,
\* once after a not-ok response and once after an unparsable body.
RetryAfterFailureWitness ==
    /\ Len(views) >= 2
    /\ Len(fetches) >= 2
    /\ fetches[1].phase = "rejected"
    /\ views[2].issued
    /\ views[2].ret = ChainPromise(2)

\* C3: the cache is write-once and absorbing. Once pcaDataCache is set it
\* never changes and no later step issues a network request; every view's
\* data and every promise handed out for the cache is that one fixture.
CacheWriteOnce ==
    /\ [][pcaDataCache # Null =>
            pcaDataCache' = pcaDataCache /\ Len(fetches') = Len(fetches)]_vars
    /\ [](\A v \in 1..Len(views) :
            /\ views[v].data \in {Null, pcaDataCache}
            /\ views[v].pre.cache # Null =>
                    ~views[v].issued /\ views[v].ret = ResolvedPromise(pcaDataCache))

\* A PCAViz mounted after the fixture was cached, after an earlier failed
\* fetch, and was served from the cache.
CacheWriteOnceWitness ==
    /\ pcaDataCache # Null
    /\ \E i \in 1..Len(fetches) : fetches[i].phase = "rejected"
    /\ \E v \in 1..Len(views) :
            /\ views[v].ret = ResolvedPromise(pcaDataCache)
            /\ views[v].awaiting = NoPromise
            /\ views[v].data = pcaDataCache

\* C4: load errors are surfaced to the view. No rejection goes unhandled;
\* a view never has both data and loadError; a view still mounted when the
\* request it started or joined failed shows the error state, and one still
\* mounted when it succeeded shows the ready state.
ErrorsSurfaced ==
    /\ unhandled = 0
    /\ \A v \in 1..Len(views) :
        /\ ~(views[v].data # Null /\ views[v].loadError # "")
        /\ ( /\ views[v].ret.kind = "chain"
             /\ views[v].awaiting = NoPromise
             /\ ~views[v].discarded ) =>
                IF fetches[views[v].ret.id].phase = "rejected"
                THEN views[v].loadError # "" /\ views[v].data = Null
                ELSE views[v].loadError = "" /\ views[v].data # Null

\* A mounted PCAViz that joined (did not start) a request that then failed
\* is in the error state.
ErrorsSurfacedWitness ==
    \E v \in 1..Len(views) :
        /\ views[v].mounted
        /\ ~views[v].issued
        /\ views[v].ret.kind = "chain"
        /\ fetches[views[v].ret.id].phase = "rejected"
        /\ views[v].loadError # ""
        /\ views[v].data = Null

\* C5: unmount guard. No step changes data or loadError of a PCAViz
\* instance whose effect cleanup has run.
UnmountGuard ==
    [][\A v \in 1..Len(views) : ~views[v].active =>
            /\ views'[v].data = views[v].data
            /\ views'[v].loadError = views[v].loadError]_vars

\* Late responses, a success and a failure, reached instances that had
\* unmounted before they arrived and were discarded.
UnmountGuardWitness ==
    \E u, v \in 1..Len(views) :
        /\ views[u].discarded /\ views[v].discarded
        /\ views[u].ret.kind = "chain" /\ views[v].ret.kind = "chain"
        /\ fetches[views[u].ret.id].phase = "rejected"
        /\ fetches[views[v].ret.id].phase = "fulfilled"
        /\ views[u].data = Null /\ views[u].loadError = ""
        /\ views[v].data = Null /\ views[v].loadError = ""

(***************************************************************************)
(* Claims about the visualizers' transport controls, checked under         *)
(* SpecViz.                                                                *)
(***************************************************************************)
\* The playing flag of the mounted visualizer, for the four visualizers
\* with Prev / Next / Reset / cursor-slider controls.
Transport == {"gd", "rnn", "llm", "svd"}
PlayingFlag ==
    CASE panel = "gd" -> gd.isPlaying
      [] panel = "rnn" -> rnn.playing
      [] panel = "llm" -> llm.playing
      [] panel = "svd" -> svd.playing
      [] OTHER -> FALSE
StepOps == {"GdPrevStep", "GdNextStep", "GdScrub", "RnnPrevStep", "RnnNextStep", "RnnScrub",
            "LlmPrevToken", "LlmNextToken", "LlmScrub", "SvdPrevK", "SvdNextK", "SvdScrub"}
ResetOps == {"GdReset", "RnnReset", "LlmReset", "SvdReset"}
TransportTicks == {"GdTick", "RnnTick", "LlmTick", "SvdTick"}

\* C6: manual step and scrub pause playback. In GradientDescentViz, RNNViz,
\* LLMViz and the SVD-image visualizer, after Prev, Next or the cursor slider
\* the playing flag is false and no interval timer is left alive; while the
\* flag is false there is no timer, and a timer tick only ever happens in a
\* state whose flag is true, so the cursor stays put until Play is pressed.
ManualStepPauses ==
    /\ [](last.op \in StepOps => ~PlayingFlag /\ timers = {})
    /\ []((panel \in Transport /\ ~PlayingFlag) => timers = {})
    /\ [][last'.op \in TransportTicks => PlayingFlag]_vars

\* The cursor slider of GradientDescentViz was moved while the animation
\* was playing.
ManualStepPausesWitness ==
    /\ last = Did("GdScrub", TRUE)
    /\ gd.visibleStep = 5
    /\ ~gd.isPlaying
    /\ timers = {}

FlowStepPauses ==
    (last.op \in {"FlowPrev", "FlowNext"} /\ last.wasPlaying) =>
        ~flow.playing /\ timers = {}

\* C9 as stated: in CNNViz, moving the Training iteration slider while
\* training playback is on leaves iterPlaying false and the 330 ms
\* iteration timer stopped.
IterationScrubPauses ==
    (last.op = "CnnSetIteration" /\ last.wasPlaying) =>
        /\ ~cnn.iterPlaying
        /\ \A tm \in timers : tm.cursor # "iteration"

\* C10: the auto-advance wrap rule. Every timer tick moves its cursor up by
\* exactly one, except at the cursor's upper bound, where it sets the cursor
\* to the restart value; the cursor never leaves its range.
AutoAdvanceWraps ==
    [][/\ last'.op = "GdTick" =>
            /\ gd'.visibleStep = (IF gd.visibleStep = gd.steps THEN 0 ELSE gd.visibleStep + 1)
            /\ gd'.visibleStep \in 0..gd.steps
       /\ last'.op = "LlmTick" =>
            /\ llm'.contextLen = (IF llm.contextLen = 9 THEN 4 ELSE llm.contextLen + 1)
            /\ llm'.contextLen \in 4..9
       /\ last'.op = "SvdTick" =>
            /\ svd'.k = (IF svd.k = MaxRank THEN 1 ELSE svd.k + 1)
            /\ svd'.k \in 1..MaxRank
       /\ last'.op = "CnnIterTick" =>
            /\ cnn'.iteration = (IF cnn.iteration = 120 THEN 1 ELSE cnn.iteration + 1)
            /\ cnn'.iteration \in 1..120
            /\ cnn'.scanIndex = cnn.scanIndex
       /\ last'.op = "RnnTick" =>
            /\ rnn'.t = (IF rnn.t = 5 THEN 0 ELSE rnn.t + 1)
            /\ rnn'.t \in 0..5
       /\ last'.op = "CnnScanTick" =>
            /\ cnn'.scanIndex = (IF cnn.scanIndex = 143 THEN 0 ELSE cnn.scanIndex + 1)
            /\ cnn'.scanIndex \in 0..143
            /\ cnn'.iteration = cnn.iteration
       /\ last'.op = "FlowTick" =>
            /\ flow'.active = (IF flow.active = 6 THEN 0 ELSE flow.active + 1)
            /\ flow'.active \in 0..6
      ]_vars

\* GradientDescentViz, with the Steps slider at its minimum, ticked at the
\* end of the path and wrapped to step 0.
AutoAdvanceWrapsWitness ==
    /\ last = Did("GdTick", TRUE)
    /\ gd.steps = StepsMin
    /\ gd.visibleStep = 0
    /\ gd.isPlaying

\* C11: cursor ranges. After any interleaving of timer ticks, slider moves
\* and button presses, RNNViz t is in [0,5], LLMViz contextLen in [4,9],
\* the SVD-image k in [1,maxRank], CNNViz scanIndex in [0,143] and iteration
\* in [1,120], and LLMFlowViz active in [0,6].
CursorRanges ==
    /\ rnn.t \in 0..5
    /\ llm.contextLen \in 4..9
    /\ svd.k \in 1..MaxRank
    /\ cnn.scanIndex \in 0..143
    /\ cnn.iteration \in 1..120
    /\ flow.active \in 0..6

\* The SVD-image panel, paused at rank 1, had "Prev k" pressed again and
\* stayed at rank 1.
CursorRangesWitness ==
    /\ panel = "svd"
    /\ last = Did("SvdPrevK", FALSE)
    /\ svd.k = 1

\* C12: the GradientDescentViz cursor is re-clamped when the Steps slider
\* lowers the path length below visibleStep: no render reads
\* path[visibleStep] with visibleStep > path.length - 1, and the panel is
\* reset, not destroyed.
GdCursorReclamped ==
    /\ ~crashed
    /\ panel = "gd" => gd.visibleStep <= gd.steps

\* The number of visualizers React has mounted: the panel of the active tab,
\* or none once a render has thrown and the root was unmounted.
MountedVisualizers == IF crashed THEN 0 ELSE 1

\* C20: exactly one visualizer is mounted at a time, and its state does not
\* survive a tab switch: after a switch every visualizer starts from its
\* mount defaults (GradientDescentViz visibleStep 0 and isPlaying true,
\* LLMViz contextLen 7, RNNViz t 0, SVD-image k 4 and playing false,
\* LLMFlowViz active 0 and playing false).
OneFreshVisualizer ==
    /\ MountedVisualizers = 1
    /\ last.op = "changeTab" =>
            /\ gd.visibleStep = 0 /\ gd.isPlaying
            /\ llm.contextLen = 7
            /\ rnn.t = 0
            /\ svd.k = 4 /\ ~svd.playing
            /\ flow.active = 0 /\ ~flow.playing
            /\ cnn = CnnDefault
            /\ timers = MountTimers(panel)

(***************************************************************************)
(* Claims about the tab shell, checked under SpecShell.                    *)
(***************************************************************************)
\* C13: invalid tab fallback. Opened with a missing, empty or unknown tab
\* parameter, the active tab is svd and nothing throws; opened with a valid
\* concept id, the active tab is that id.
InvalidTabFallsBack ==
    appPhase = "rendered" =>
        /\ ~crashed
        /\ Len(history) = 1
        /\ IF history[1] \in {"svd", "pca", "gd", "cnn", "rnn", "llm", "llmflow"}
           THEN panel = history[1]
           ELSE panel = "svd"

\* The page opened with ?tab=bogus has rendered the svd tab.
InvalidTabFallsBackWitness ==
    /\ appPhase = "rendered"
    /\ history = <<"bogus">>
    /\ panel = "svd"
    /\ ~crashed

\* C14: history on mount. Mounted with no valid tab parameter, the effect
\* rewrites the URL to tab=svd with replaceState, so the history length does
\* not change; mounted with a valid tab parameter, it writes nothing.
MountHistoryWrite ==
    [][appPhase = "rendered" /\ appPhase' = "ready" =>
            IF history[histIdx] \in Concepts
            THEN /\ history' = history /\ histIdx' = histIdx
                 /\ shellLast'.wrote = "none"
            ELSE /\ Len(history') = Len(history) /\ histIdx' = histIdx
                 /\ history'[histIdx'] = "svd"
                 /\ shellLast'.wrote = "replace"
      ]_vars

\* The mount effect has replaced the only history entry by tab=svd.
MountHistoryWriteWitness ==
    /\ shellLast.op = "effect" /\ shellLast.wrote = "replace"
    /\ appPhase = "ready"
    /\ history = <<"svd">> /\ histIdx = 1

\* C15: each change to a different tab pushes exactly one history entry,
\* whose tab parameter is the chosen tab, after the current entry; a click
\* on the active tab changes neither the state nor the history.
TabChangePushesOne ==
    [][/\ shellLast'.op = "changeTab" /\ panel' # panel =>
            /\ history' = Append(SubSeq(history, 1, histIdx), panel')
            /\ histIdx' = histIdx + 1
            /\ Len(history') = histIdx + 1
       /\ shellLast'.op = "changeTab" /\ shellLast' # shellLast /\ panel' = panel =>
            /\ UNCHANGED <<history, histIdx, views, lazyPCA, imports, hasError, timers>>
            /\ shellLast'.wrote = "none"
      ]_vars

\* After going back to the first entry, a click on another tab has pushed
\* the second entry again.
TabChangePushesOneWitness ==
    /\ shellLast.op = "changeTab" /\ shellLast.wrote = "push"
    /\ Len(history) = 2 /\ histIdx = 2
    /\ history = <<"gd", "pca">>
    /\ panel = "pca"

\* C16: back and forward set the active tab to the tab of the entry
\* navigated to; the navigation adds no history entry and rewrites none.
BackForwardRestores ==
    [][histIdx' # histIdx /\ shellLast'.op = "popstate" =>
            /\ panel' = history[histIdx']
            /\ history' = history
            /\ shellLast'.wrote = "none"
      ]_vars

\* Two tab changes, then back twice: the first entry is current again, the
\* two later entries are still there.
BackForwardRestoresWitness ==
    /\ shellLast.op = "popstate"
    /\ Len(history) = 3 /\ histIdx = 1
    /\ panel = history[1]
    /\ history[2] # panel

\* C17: URL and state agree. In every settled state after mounting with any
\* URL, clicking tabs and going back and forward, the tab parameter of the
\* URL is a valid concept id and equals the active tab.
UrlAgreesWithActive ==
    appPhase = "ready" =>
        /\ history[histIdx] \in Concepts
        /\ history[histIdx] = panel

\* A forward navigation, after a back navigation, to the middle one of
\* three entries.
UrlAgreesWithActiveWitness ==
    /\ appPhase = "ready"
    /\ shellLast.op = "popstate"
    /\ Len(history) = 3 /\ histIdx = 2
    /\ history[2] = panel /\ history[2] \in Concepts

\* The states and steps of one load of the lazy panel.
LazyAttempts ==
    /\ imports <= 2
    /\ lazyPCA.status = "uninitialized" => imports = 0
    /\ lazyPCA.status = "importing" => imports = 1
    /\ lazyPCA.status = "delay" => imports = 1 /\ lazyPCA.delay = 350
    /\ lazyPCA.status \in {"retrying", "rejected"} => imports = 2
    /\ hasError => lazyPCA.status = "rejected" /\ panel = "pca"
    /\ panel = "pca" /\ lazyPCA.status = "rejected" => hasError

LazySteps ==
    /\ imports' \in {imports, imports + 1}
    /\ imports' = 2 /\ imports = 1 => lazyPCA.status = "delay"
    /\ lazyPCA.status = "importing" /\ lazyPCA'.status # "importing" =>
            /\ lazyPCA'.status \in {"resolved", "delay"}
            /\ imports' = 1
    /\ lazyPCA.status = "retrying" /\ lazyPCA'.status # "retrying" =>
            lazyPCA'.status \in {"resolved", "rejected"}
    /\ lazyPCA.status \in {"resolved", "rejected"} => UNCHANGED <<lazyPCA, imports>>

\* C18: the lazy panel retries once. When the first import fails, exactly
\* one further import is made, after a 350 ms delay; when that fails too the
\* static fallback is shown; one load never makes more than two imports, and
\* a first import that succeeds is the only one.
LazyRetriesOnce == []LazyAttempts /\ [][LazySteps]_vars

\* Both imports failed while the PCA tab was open: the boundary shows the
\* fallback.
LazyRetriesOnceWitness ==
    /\ panel = "pca"
    /\ lazyPCA.status = "rejected"
    /\ imports = 2
    /\ hasError

\* C19: failure isolation. While the PCA panel shows its load-failure
\* fallback or its fixture-error state, the tab shell is alive and accepts a
\* change to any other tab.
FailureIsolated ==
    (\/ panel = "pca" /\ lazyPCA.status = "rejected"
     \/ PcaShows = "fixture-error") =>
        /\ ~crashed
        /\ appPhase = "ready"
        /\ MicrotasksIdle /\ histIdx < MaxHistory =>
                \A tab \in ClickTabs \ {"pca"} : ENABLED TabClick(tab)

\* A tab change made while the PCA panel showed its fixture-error state.
FailureIsolatedWitness ==
    /\ shellLast.op = "changeTab" /\ shellLast.wrote = "push"
    /\ shellLast.left = "fixture-error"
    /\ panel = "rnn"
    /\ ~crashed

(***************************************************************************)
(* Claims about timers, play state and stepping, checked under SpecViz.    *)
(***************************************************************************)
TimersOf(c) == {tm \in timers : tm.cursor = c}

\* C21: no leaked timers. Each cursor has at most one live interval timer;
\* it has none while its playing flag is false and none once its panel is
\* unmounted; after a change of speed (or, in GradientDescentViz, of the
\* path length) the only live timer is the one created with the new value.
NoLeakedTimers ==
    /\ \A c \in {"visibleStep", "t", "contextLen", "k", "scanIndex", "iteration", "active"} :
            Cardinality(TimersOf(c)) <= 1
    /\ \A tm \in timers :
        /\ ~crashed
        /\ tm.cursor = "visibleStep" =>
                panel = "gd" /\ gd.isPlaying /\ tm.every = gd.speedMs /\ tm.len = gd.steps + 1
        /\ tm.cursor = "t" => panel = "rnn" /\ rnn.playing /\ tm.every = rnn.speed
        /\ tm.cursor = "contextLen" => panel = "llm" /\ llm.playing /\ tm.every = llm.speed
        /\ tm.cursor = "k" => panel = "svd" /\ svd.playing /\ tm.every = svd.speed
        /\ tm.cursor = "scanIndex" =>
                panel = "cnn" /\ cnn.scanPlaying /\ tm.every = cnn.scanSpeed
        /\ tm.cursor = "iteration" => panel = "cnn" /\ cnn.iterPlaying
        /\ tm.cursor = "active" => panel = "llmflow" /\ flow.playing /\ tm.every = flow.speed

\* GradientDescentViz, playing, had its speed changed: one timer, with the
\* new period.
NoLeakedTimersWitness ==
    /\ last = Did("GdSetSpeed", TRUE)
    /\ gd.isPlaying /\ gd.speedMs = 60
    /\ Cardinality(timers) = 1
    /\ \A tm \in timers : tm.every = 60

(***************************************************************************)
(* Claims about the fixture file, checked under SpecRepo.                  *)
(***************************************************************************)
\* C27: artifact path agreement. Running the precompute job updates
\* public/data/pca-presets.json, the file the pre-commit hook re-stages
\* after running the job and the file the app fetches: once the job has
\* run, that file holds the output of the latest run, and after the hook
\* has run the job the index holds it too.
ArtifactPathAgreement ==
    /\ repo.runs > 0 => repo.files["public/data/pca-presets.json"] = repo.runs
    /\ repo.hook = "ran" => repo.index["public/data/pca-presets.json"] = repo.runs

(***************************************************************************)
(* Claims about the derived values, checked under SpecDerive.              *)
(***************************************************************************)
\* C22: in every attention matrix LLMViz draws for a context of 4 to 9
\* tokens the cell (r, c) carries the mask class, and no background, exactly
\* when c > r; a merged row has weight exactly 0 at every position right of
\* its query; and in RNNViz every token after the step t has influence 0 and
\* the future class.
CausalMasking ==
    /\ calc.fn = "renderMatrix" =>
         \A r \in 0..(calc.in[2] - 1), c \in 0..(calc.in[2] - 1) :
            /\ calc.out[r][c].className = "llm-cell llm-cell-mask" <=> c > r
            /\ "background" \in DOMAIN calc.out[r][c].style <=> ~(c > r)
    /\ calc.fn = "merged" =>
         \A qi \in 0..(calc.in[1] - 1), k \in 0..(calc.in[1] - 1) :
            k > qi => calc.out[qi][k] = 0
    /\ calc.fn = "influence" =>
         \A idx \in 0..(RnnTokens - 1) :
            idx > calc.in[1] =>
                /\ calc.out[idx].value = 0
                /\ calc.out[idx].className = "rnn-memory-bar rnn-memory-future"

\* A full-context matrix is drawn: its top-right cell is masked, its last
\* row is the active one and painted.
CausalMaskingWitness ==
    /\ calc.fn = "renderMatrix"
    /\ calc.in[2] = LlmTokens
    /\ calc.out[0][LlmTokens - 1].className = "llm-cell llm-cell-mask"
    /\ calc.out[LlmTokens - 1][0].className = "llm-cell llm-cell-active"
    /\ calc.out[LlmTokens - 1][0].style.background > (8 * FxOne) \div 100

Within(sum, one) == Abs(sum - one) <= one \div (1000 * 1000)

\* C23: head1Row(qi) and head2Row(qi) for qi in 0..8, and every merged row
\* over the positions 0..qi for every blend, sum to 1 within 1e-6; so do the
\* probabilities of both softmax functions.
Normalized ==
    /\ calc.fn \in {"head1Row", "head2Row"} =>
         Within(SumOver(calc.out, 0, calc.in[1]), FxOne)
    /\ calc.fn = "merged" =>
         \A qi \in 0..(calc.in[1] - 1) : Within(SumOver(calc.out[qi], 0, qi), FxOne)
    /\ calc.fn \in {"softmax", "rnnSoftmax"} =>
         Within(SumOver(calc.out, 0, VocabSize - 1), ProbOne)

\* The merged matrix of the full context at an even blend: the last row
\* spreads its weight over more than one position.
NormalizedWitness ==
    /\ calc.fn = "merged"
    /\ calc.in = <<LlmTokens, BlendSteps \div 2>>
    /\ \E k \in 0..(LlmTokens - 1) :
          /\ calc.out[LlmTokens - 1][k] > 0
          /\ calc.out[LlmTokens - 1][k] < FxOne \div 2

ScanConsistent ==
    calc.fn = "scan" =>
        /\ calc.out.scanPos.x + KERNEL_SIZE <= IMAGE_SIZE
        /\ calc.out.scanPos.y + KERNEL_SIZE <= IMAGE_SIZE
        /\ calc.out.patchActivation
              = convMap[calc.out.scanPos.y + 1][calc.out.scanPos.x + 1]

\* The last scan position, whose window covers the border's corner.
ScanConsistentWitness ==
    /\ calc.fn = "scan"
    /\ calc.in = <<ScanPositions - 1>>
    /\ calc.out.scanPos = [x |-> IMAGE_SIZE - KERNEL_SIZE, y |-> IMAGE_SIZE - KERNEL_SIZE]
    /\ calc.out.patchActivation = 75

(***************************************************************************)
(* Claims about parameter changes and manual stepping, checked under       *)
(* SpecViz.                                                                *)
(***************************************************************************)
ParameterOps ==
    {"GdSetSpeed", "GdSetLr", "GdSetStart", "GdSetSteps", "GdSetCamera",
     "RnnSetSpeed", "RnnSetGain", "LlmSetSpeed", "LlmSetBlend", "LlmSetTemperature",
     "SvdSetSpeed", "CnnSetScanSpeed", "CnnSetDropRate", "FlowSetSpeed"}

SpeedOps ==
    {"GdSetSpeed", "RnnSetSpeed", "LlmSetSpeed", "SvdSetSpeed", "CnnSetScanSpeed",
     "FlowSetSpeed"}

PlayingFlags ==
    <<gd.isPlaying, rnn.playing, llm.playing, svd.playing, cnn.scanPlaying,
      cnn.iterPlaying, flow.playing>>

Cursors ==
    <<gd.visibleStep, rnn.t, llm.contextLen, svd.k, cnn.scanIndex, cnn.iteration,
      flow.active>>

ManualStepClamps ==
    [][/\ last'.op = "GdNextStep" =>
            gd'.visibleStep = (IF gd.visibleStep = gd.steps THEN gd.steps
                               ELSE gd.visibleStep + 1)
       /\ last'.op = "GdPrevStep" =>
            gd'.visibleStep = (IF gd.visibleStep = 0 THEN 0 ELSE gd.visibleStep - 1)
       /\ last'.op = "RnnNextStep" =>
            rnn'.t = (IF rnn.t = 5 THEN 5 ELSE rnn.t + 1)
       /\ last'.op = "RnnPrevStep" =>
            rnn'.t = (IF rnn.t = 0 THEN 0 ELSE rnn.t - 1)
       /\ last'.op = "LlmNextToken" =>
            llm'.contextLen = (IF llm.contextLen = 9 THEN 9 ELSE llm.contextLen + 1)
       /\ last'.op = "LlmPrevToken" =>
            llm'.contextLen = (IF llm.contextLen = 4 THEN 4 ELSE llm.contextLen - 1)
       /\ last'.op = "SvdNextK" =>
            svd'.k = (IF svd.k = MaxRank THEN MaxRank ELSE svd.k + 1)
       /\ last'.op = "SvdPrevK" =>
            svd'.k = (IF svd.k = 1 THEN 1 ELSE svd.k - 1)
       /\ last'.op = "FlowNext" =>
            flow'.active = (IF flow.active = 6 THEN 6 ELSE flow.active + 1)
       /\ last'.op = "FlowPrev" =>
            flow'.active = (IF flow.active = 0 THEN 0 ELSE flow.active - 1)
      ]_vars

\* GradientDescentViz, already paused, had Next Step pressed and stands at
\* the end of the default path.
ManualStepClampsWitness ==
    /\ panel = "gd"
    /\ last = Did("GdNextStep", FALSE)
    /\ gd.steps = StepsDefault
    /\ gd.visibleStep = gd.steps

(***************************************************************************)
(* Loader failure ordering, checked under SpecLoader.                      *)
(***************************************************************************)
\* View v's .catch callback runs in this step with the rejection of a
\* failed request.
ObservesRejection(v) ==
    /\ views[v].awaiting.kind = "chain"
    /\ fetches[views[v].awaiting.id].phase = "rejected"
    /\ views'[v].awaiting = NoPromise

\* C29: when a caller's rejection handler runs, the in-flight marker is
\* already cleared, so loadPcaArtifact() called there starts a new request
\* and does not return the rejected promise; and every caller that joined a
\* failed request and shows an error shows that request's error.
FailureOrdering ==
    /\ [](\A v \in 1..Len(views) :
            (/\ views[v].ret.kind = "chain"
             /\ views[v].awaiting = NoPromise
             /\ fetches[views[v].ret.id].phase = "rejected"
             /\ ~views[v].discarded) =>
                views[v].loadError = fetches[views[v].ret.id].error)
    /\ [][\A v \in 1..Len(views) :
            ObservesRejection(v) =>
                /\ pcaDataPromise # views[v].awaiting.id
                /\ loadPcaArtifact.issued
                /\ loadPcaArtifact.ret # views[v].awaiting
         ]_vars

\* Two callers shared one failed request: the first had left before the
\* rejection and dropped it, the second joined and shows the error; the
\* marker is clear.
FailureOrderingWitness ==
    \E u, v \in 1..Len(views) :
        /\ u < v
        /\ views[u].ret = views[v].ret
        /\ views[v].ret.kind = "chain"
        /\ views[u].issued /\ ~views[v].issued
        /\ fetches[views[v].ret.id].phase = "rejected"
        /\ views[u].discarded
        /\ views[v].loadError # ""
        /\ pcaDataPromise = Null

(***************************************************************************)
(* Auto-play, checked under SpecAutoPlay.                                  *)
(***************************************************************************)
\* C26: playback left running never halts: the cursor of the visualizer on
\* screen takes every value of its range infinitely often (visibleStep
\* 0..steps, t 0..5, contextLen 4..9, scanIndex 0..143).
AutoPlayNeverHalts ==
    /\ \A v \in 0..StepsMax :
          []<>(panel = "gd" /\ v <= gd.steps => gd.visibleStep = v)
    /\ \A v \in 0..(RnnTokens - 1) : []<>(panel = "rnn" => rnn.t = v)
    /\ \A v \in LlmMinContext..LlmTokens : []<>(panel = "llm" => llm.contextLen = v)
    /\ \A v \in 0..(ScanPositions - 1) : []<>(panel = "cnn" => cnn.scanIndex = v)

\* LLMViz, which starts at 7 tokens, is back at 4: a tick wrapped it from 9.
AutoPlayNeverHaltsWitness ==
    /\ panel = "llm"
    /\ last = Did("LlmTick", TRUE)
    /\ llm.playing
    /\ llm.contextLen = LlmMinContext

====
